---- MODULE Spec2Model ----
(***************************************************************************)
(* A model of the Monte Carlo forecasting core of                          *)
(* backend/ml_python/services/professional_monte_carlo.py:                 *)
(*   - ProfessionalMonteCarloEngine.run_monte_carlo_simulation with its    *)
(*     parallel and sequential runners, the path simulator and the         *)
(*     statistics aggregator (specification Spec, and SpecRepeat for the   *)
(*     same call made twice);                                              *)
(*   - the same call over every SimulationConfig, valid or not             *)
(*     (specification SpecConfig), and the batch split of the parallel     *)
(*     runner on its own (specification SpecBatches);                      *)
(*   - ProfessionalMonteCarloEngine.calculate_asset_parameters             *)
(*     (specification SpecParams);                                         *)
(*   - ProfessionalMonteCarloEngine.calculate_correlation_matrix           *)
(*     (specification SpecCorr) and _make_positive_semidefinite on its own *)
(*     (specification SpecRepair);                                         *)
(*   - the engine call on a volatile instrument (specification             *)
(*     SpecVolatile) and _simulate_portfolio_paths statement by statement  *)
(*     (specification SpecPaths);                                          *)
(* and of two functions of backend/main.py:                                *)
(*   - calculate_portfolio_metrics (specification SpecMetrics);            *)
(*   - optimize_portfolio, as control flow over the outcomes of the        *)
(*     optimizers it calls (specification SpecOptimize).                   *)
(*                                                                         *)
(* Number model.  In the simulator, the statistics and the estimator,      *)
(* numpy floats are modelled as exact rationals extended with the IEEE     *)
(* special values NaN, +inf and -inf (records built by Fin, NaN, PInf,     *)
(* NInf), without rounding.  The correlation matrix and its repair are     *)
(* computed in binary floating point with a significand of SigBits bits    *)
(* and round-to-nearest-even (records built by Bin), since there the       *)
(* rounding of the reconstruction decides what is returned.  Log-returns   *)
(* are measured in units of ln 2, so that exp(x) is 2^x and np.log(x) is   *)
(* log2(x): both stay exact on the values the model draws.  Portfolio and  *)
(* asset values inside the simulator are integers counted in units of      *)
(* 1/ExpScale(T), which makes every 2^x step exact.  A standard deviation  *)
(* is carried as its square (a variance), since a square root is not a     *)
(* rational; a ratio whose denominator is a standard deviation is carried  *)
(* as the pair (numerator, squared denominator).                           *)
(***************************************************************************)
EXTENDS Integers, Sequences, FiniteSets, TLC

(***************************************************************************)
(* Bounds of the model.                                                    *)
(***************************************************************************)
MaxSims == 4
MaxHorizon == 2
MaxWorkers == 2
MaxHistory == 3
MaxBaseSims == 12
MaxPoolWorkers == 5
SigBits == 8
MaxPriceRows == 4

(***************************************************************************)
(* Integer helpers.                                                        *)
(***************************************************************************)
Abs(x) == IF x < 0 THEN -x ELSE x

Sign(x) == IF x < 0 THEN -1 ELSE IF x > 0 THEN 1 ELSE 0

Max2(a, b) == IF a >= b THEN a ELSE b

RECURSIVE GCD(_, _)
GCD(a, b) == IF b = 0 THEN a ELSE GCD(b, a % b)

RECURSIVE Pow2(_)
Pow2(e) == IF e <= 0 THEN 1 ELSE 2 * Pow2(e - 1)

\* The largest r with r * r <= x (x >= 0).
RECURSIVE ISqrtFrom(_, _)
ISqrtFrom(x, r) == IF (r + 1) * (r + 1) > x THEN r ELSE ISqrtFrom(x, r + 1)

ISqrt(x) == ISqrtFrom(x, 0)

(***************************************************************************)
(* Floats: exact rationals with NaN and the two infinities.                *)
(***************************************************************************)
NaN == [k |-> "nan", n |-> 0, d |-> 1]

PInf == [k |-> "pinf", n |-> 0, d |-> 1]

NInf == [k |-> "ninf", n |-> 0, d |-> 1]

\* The rational n/d (d # 0) in lowest terms with a positive denominator.
Fin(n, d) ==
    LET g == GCD(Abs(n), Abs(d))
        s == IF d < 0 THEN -1 ELSE 1
    IN [k |-> "fin", n |-> s * (n \div g), d |-> s * (d \div g)]

FI(i) == Fin(i, 1)

IsFinite(a) == a.k = "fin"

IsNaN(a) == a.k = "nan"

\* The sign of a float that is not NaN.
FSign(a) == IF a.k = "pinf" THEN 1 ELSE IF a.k = "ninf" THEN -1 ELSE Sign(a.n)

InfOfSign(s) == IF s > 0 THEN PInf ELSE NInf

FNeg(a) ==
    IF a.k = "nan" THEN NaN
    ELSE IF a.k = "pinf" THEN NInf
    ELSE IF a.k = "ninf" THEN PInf
    ELSE Fin(-a.n, a.d)

FAdd(a, b) ==
    IF a.k = "nan" \/ b.k = "nan" THEN NaN
    ELSE IF a.k = "fin" /\ b.k = "fin"
        THEN LET g == GCD(a.d, b.d)
             IN Fin(a.n * (b.d \div g) + b.n * (a.d \div g), (a.d \div g) * b.d)
    ELSE IF a.k = "fin" THEN b
    ELSE IF b.k = "fin" THEN a
    ELSE IF a.k = b.k THEN a
    ELSE NaN

FSub(a, b) == FAdd(a, FNeg(b))

FMul(a, b) ==
    IF a.k = "nan" \/ b.k = "nan" THEN NaN
    ELSE IF a.k = "fin" /\ b.k = "fin"
        THEN LET g == GCD(Abs(a.n), b.d)
                 h == GCD(Abs(b.n), a.d)
             IN Fin((a.n \div g) * (b.n \div h), (a.d \div h) * (b.d \div g))
    ELSE IF FSign(a) = 0 \/ FSign(b) = 0 THEN NaN
    ELSE InfOfSign(FSign(a) * FSign(b))

\* IEEE division: x/0 is an infinity of x's sign, 0/0 and inf/inf are NaN.
FDiv(a, b) ==
    IF a.k = "nan" \/ b.k = "nan" THEN NaN
    ELSE IF a.k = "fin" /\ b.k = "fin"
        THEN IF b.n = 0
             THEN (IF a.n = 0 THEN NaN ELSE InfOfSign(Sign(a.n)))
             ELSE Fin(a.n * b.d, a.d * b.n)
    ELSE IF a.k = "fin" THEN FI(0)
    ELSE IF b.k = "fin" THEN InfOfSign(FSign(a) * (IF b.n < 0 THEN -1 ELSE 1))
    ELSE NaN

\* Comparisons: every comparison with NaN is false.
FLt(a, b) ==
    /\ a.k # "nan"
    /\ b.k # "nan"
    /\ IF a.k = "fin" /\ b.k = "fin"
       THEN LET g == GCD(a.d, b.d)
            IN a.n * (b.d \div g) < b.n * (a.d \div g)
       ELSE IF a.k = b.k THEN FALSE
       ELSE a.k = "ninf" \/ b.k = "pinf"

FGt(a, b) == FLt(b, a)

FLe(a, b) == a.k # "nan" /\ b.k # "nan" /\ ~FLt(b, a)

FAbs(a) == IF a.k = "nan" THEN NaN ELSE IF FSign(a) < 0 THEN FNeg(a) ELSE a

\* np.min / np.max of two values: NaN propagates.
FMin2(a, b) == IF a.k = "nan" \/ b.k = "nan" THEN NaN ELSE IF FLt(b, a) THEN b ELSE a

FMax2(a, b) == IF a.k = "nan" \/ b.k = "nan" THEN NaN ELSE IF FLt(a, b) THEN b ELSE a

RECURSIVE FSum(_)
FSum(s) == IF s = <<>> THEN FI(0) ELSE FAdd(Head(s), FSum(Tail(s)))

RECURSIVE FMinSeq(_)
FMinSeq(s) == IF Len(s) = 1 THEN s[1] ELSE FMin2(s[1], FMinSeq(Tail(s)))

RECURSIVE FMaxSeq(_)
FMaxSeq(s) == IF Len(s) = 1 THEN s[1] ELSE FMax2(s[1], FMaxSeq(Tail(s)))

\* np.mean: sum / count; the mean of an empty array is 0/0 = NaN.
FMean(s) == FDiv(FSum(s), FI(Len(s)))

\* The square of np.std (ddof = 0): mean(|x - mean(x)|^2).
FVar(s) ==
    LET m == FMean(s)
    IN FMean([i \in 1..Len(s) |-> FMul(FSub(s[i], m), FSub(s[i], m))])

(***************************************************************************)
(* Inputs of run_monte_carlo_simulation.                                   *)
(***************************************************************************)
\* The keys of asset_parameters, in insertion order.
Tickers == <<"A", "B">>

NAssets == Len(Tickers)

\* AssetParameters of two instruments; drift and daily_volatility in units
\* of ln 2 per day.
ParamSets ==
    { [A |-> [current_price |-> 2, drift |-> 1, daily_volatility |-> 1],
       B |-> [current_price |-> 1, drift |-> 0, daily_volatility |-> 1]] }

\* portfolio_weights: a dict; "X" is an instrument without parameters.
WeightSets ==
    { ("A" :> 1) @@ ("B" :> 1),
      ("A" :> 1),
      ("A" :> 1) @@ ("X" :> 2),
      ("A" :> 1) @@ ("B" :> -1),
      ("A" :> 0) @@ ("B" :> 0),
      <<>> }

\* correlation_matrix: any square array the caller passes.  The second is
\* positive definite with an off-diagonal entry, the third is singular
\* (perfect correlation), the fourth is indefinite.
CorrSets ==
    { << <<1, 0>>, <<0, 1>> >>,
      << <<1, 1>>, <<1, 2>> >>,
      << <<1, 1>>, <<1, 1>> >>,
      << <<1, 2>>, <<2, 1>> >> }

\* A lookup that counts one unit of every instrument without a weight.
WeightOrOne(w, t) == IF t \in DOMAIN w THEN w[t] ELSE 1

\* portfolio_weights.get(ticker, 0)
WeightOf(w, t) == IF t \in DOMAIN w THEN w[t] ELSE 0

\* Values are counted in units of 1/ExpScale(T): no instrument moves by
\* more than 2^2 or less than 2^-2 a day under ParamSets and CorrSets.
ExpScale(T) == Pow2(2 * T)

\* x * exp(e), exp being 2^e.
TimesExp(x, e) == IF e >= 0 THEN x * Pow2(e) ELSE x \div Pow2(-e)

(***************************************************************************)
(* np.linalg.cholesky: the lower-triangular L with L L^T = A, read from    *)
(* the lower triangle of A; LinAlgError when a pivot is not positive.      *)
(***************************************************************************)
RECURSIVE DotPrefix(_, _, _)
DotPrefix(u, v, k) == IF k = 0 THEN 0 ELSE u[k] * v[k] + DotPrefix(u, v, k - 1)

RECURSIVE CholFill(_, _, _, _)
CholFill(A, L, i, j) ==
    IF i > Len(A) THEN [ok |-> TRUE, L |-> L]
    ELSE LET s == A[i][j] - DotPrefix(L[i], L[j], j - 1)
         IN IF j = i
            THEN IF s <= 0 THEN [ok |-> FALSE, L |-> L]
                 ELSE CholFill(A, [L EXCEPT ![i][i] = ISqrt(s)], i + 1, 1)
            ELSE CholFill(A, [L EXCEPT ![i][j] = s \div L[j][j]], i, j + 1)

Cholesky(A) ==
    CholFill(A, [i \in 1..Len(A) |-> [j \in 1..Len(A) |-> 0]], 1, 1)

(***************************************************************************)
(* The global numpy random stream.  np.random.seed(42) puts the generator  *)
(* at position 0 of one fixed stream; a draw of m numbers returns the next *)
(* m numbers and advances the position by m.  Shocks are whole numbers.    *)
(***************************************************************************)
StreamTable ==
    << 1, -1, 0, 1, 1, 0, -1, 1, 0, -1, -1, 1, 0, 0, 1, -1,
       -1, 0, 1, 0, 1, 1, -1, 0, -1, 1, 0, 1, -1, -1, 0, 1,
       1, 0, 0, -1, 1, -1, 1, 0, -1, 0, 1, 1, 0, -1, 1, -1 >>

Stream(p) == StreamTable[(p % Len(StreamTable)) + 1]

\* np.random.standard_normal((n, T, nAssets)) drawn at position pos.
StandardNormal(pos, n, T, nAssets) ==
    [s \in 1..n |-> [d \in 1..T |-> [k \in 1..nAssets |->
        Stream(pos + ((s - 1) * T + (d - 1)) * nAssets + (k - 1))]]]

\* A contraction with the factor transposed: 'ijk,kl->ijl'.
RECURSIVE DotColumn(_, _, _, _)
DotColumn(u, m, l, k) ==
    IF k = 0 THEN 0 ELSE u[k] * m[k][l] + DotColumn(u, m, l, k - 1)

EinsumTransposed(Z, L) ==
    [s \in DOMAIN Z |-> [d \in DOMAIN Z[s] |-> [l \in 1..Len(L) |->
        DotColumn(Z[s][d], L, l, Len(L))]]]

\* np.einsum('ijk,lk->ijl', Z, L)
Einsum(Z, L) ==
    [s \in DOMAIN Z |-> [d \in DOMAIN Z[s] |-> [l \in 1..Len(L) |->
        DotPrefix(Z[s][d], L[l], Len(L))]]]

(***************************************************************************)
(* _simulate_portfolio_paths after the draw: geometric Brownian motion.    *)
(***************************************************************************)
\* sum(current_price * weights.get(ticker, 0) for ticker in tickers)
RECURSIVE InitialValueUpTo(_, _, _)
InitialValueUpTo(params, w, i) ==
    IF i = 0 THEN 0
    ELSE InitialValueUpTo(params, w, i - 1)
         + params[Tickers[i]].current_price * WeightOf(w, Tickers[i])

InitialValue(params, w) == InitialValueUpTo(params, w, NAssets)

\* asset_prices[s, day, i], cz being correlated_Z[s].
\* A log return that every instrument computes from the parameters of the
\* first one.
LogReturnOfFirst(params, cz, day, i) ==
    params[Tickers[1]].drift + params[Tickers[1]].daily_volatility * cz[day][i]

\* log_return = drift + daily_volatility * correlated_Z[:, day-1, i], the
\* drift and volatility being those of instrument i.
LogReturn(params, cz, day, i) ==
    params[Tickers[i]].drift + params[Tickers[i]].daily_volatility * cz[day][i]

RECURSIVE AssetPrice(_, _, _, _, _)
AssetPrice(params, cz, T, day, i) ==
    IF day = 0 THEN params[Tickers[i]].current_price * ExpScale(T)
    ELSE TimesExp(AssetPrice(params, cz, T, day - 1, i),
                  LogReturn(params, cz, day, i))

\* A daily sum that leaves the first instrument out.
RECURSIVE WeightedSumSkippingFirst(_, _, _, _, _, _)
WeightedSumSkippingFirst(params, w, cz, T, day, i) ==
    IF i <= 1 THEN 0
    ELSE WeightedSumSkippingFirst(params, w, cz, T, day, i - 1)
         + (IF WeightOf(w, Tickers[i]) > 0
            THEN WeightOf(w, Tickers[i]) * AssetPrice(params, cz, T, day, i)
            ELSE 0)

\* portfolio_values[s, day] += weight * asset_prices[s, day, i] if weight > 0
RECURSIVE WeightedSumUpTo(_, _, _, _, _, _)
WeightedSumUpTo(params, w, cz, T, day, i) ==
    IF i = 0 THEN 0
    ELSE WeightedSumUpTo(params, w, cz, T, day, i - 1)
         + (IF WeightOf(w, Tickers[i]) > 0
            THEN WeightOf(w, Tickers[i]) * AssetPrice(params, cz, T, day, i)
            ELSE 0)

\* portfolio_values: n rows of T + 1 entries, entry d + 1 holding day d.
PortfolioValues(params, w, correlated_Z, T, n) ==
    [s \in 1..n |-> [c \in 1..(T + 1) |->
        IF c = 1 THEN InitialValue(params, w) * ExpScale(T)
        ELSE WeightedSumUpTo(params, w, correlated_Z[s], T, c - 1, NAssets)]]

(***************************************************************************)
(* _calculate_simulation_statistics.  paths holds whole numbers of         *)
(* 1/scale; initial is the initial portfolio value in the same unit.       *)
(***************************************************************************)
\* A ratio num / sqrt(den_sq), and the float 0.0 a guarded ratio falls back to.
Ratio(num, den_sq) == [num |-> num, den_sq |-> den_sq]

ZeroRatio == Ratio(FI(0), FI(1))

\* Whether num / sqrt(den_sq) is a finite float.
RatioIsFinite(r) ==
    /\ IsFinite(r.num)
    /\ \/ r.den_sq.k = "pinf"
       \/ IsFinite(r.den_sq) /\ r.den_sq.n > 0

\* returns[returns < 0]
RECURSIVE SelectNegative(_)
SelectNegative(s) ==
    IF s = <<>> THEN <<>>
    ELSE IF FLt(Head(s), FI(0)) THEN <<Head(s)>> \o SelectNegative(Tail(s))
    ELSE SelectNegative(Tail(s))

\* np.cumprod(1 + portfolio_returns) with a leading 1, up to column c of row.
RECURSIVE Cumulative(_, _)
Cumulative(row, c) ==
    IF c = 1 THEN FI(1)
    ELSE LET portfolio_return ==
                 FDiv(FI(row[c] - row[c - 1]), FI(row[c - 1]))
         IN FMul(Cumulative(row, c - 1), FAdd(FI(1), portfolio_return))

\* np.maximum.accumulate along a row.
RECURSIVE RunningMax(_, _)
RunningMax(row, c) ==
    IF c = 1 THEN Cumulative(row, 1)
    ELSE FMax2(RunningMax(row, c - 1), Cumulative(row, c))

Drawdown(row, c) ==
    FDiv(FSub(Cumulative(row, c), RunningMax(row, c)), RunningMax(row, c))

\* np.min(drawdowns) over all simulations and days.
MaxDrawdown(paths) ==
    FMinSeq([s \in 1..Len(paths) |->
        FMinSeq([c \in 1..Len(paths[s]) |-> Drawdown(paths[s], c)])])

\* A Sharpe ratio without the guard on the standard deviation.
SharpeRatioUnguarded(excess_returns, returns) ==
    Ratio(FMean(excess_returns), FVar(returns))

\* sharpe_ratio = mean(excess) / std(returns) if std(returns) > 0 else 0
SharpeRatio(excess_returns, returns) ==
    IF FGt(FVar(returns), FI(0))
    THEN Ratio(FMean(excess_returns), FVar(returns))
    ELSE ZeroRatio

\* downside_deviation (squared) = std(downside)^2 if len(downside) > 0 else 0.0
DownsideDeviationSq(returns) ==
    IF Len(SelectNegative(returns)) > 0 THEN FVar(SelectNegative(returns))
    ELSE FI(0)

\* sortino_ratio = mean(excess) / downside_deviation if downside_deviation > 0 else 0
SortinoRatio(excess_returns, returns) ==
    IF FGt(DownsideDeviationSq(returns), FI(0))
    THEN Ratio(FMean(excess_returns), DownsideDeviationSq(returns))
    ELSE ZeroRatio

\* calmar_ratio = mean(returns) / abs(max_drawdown) if max_drawdown < 0 else 0
CalmarRatio(returns, max_drawdown) ==
    IF FLt(max_drawdown, FI(0))
    THEN FDiv(FMean(returns), FAbs(max_drawdown))
    ELSE FI(0)

\* daily_rf_rate = (1 + risk_free_rate) ** (1/252) - 1; the model runs with
\* config.risk_free_rate = 0, whose 252nd root is exact.
DailyRfRate == FI(0)

RECURSIVE FPow(_, _)
FPow(a, e) == IF e = 0 THEN FI(1) ELSE FMul(a, FPow(a, e - 1))

\* annualized_rf_rate = (1 + daily_rf_rate) ** time_horizon_days - 1
AnnualizedRfRate(T) == FSub(FPow(FAdd(FI(1), DailyRfRate), T), FI(1))

Returns(paths, initial) ==
    [s \in 1..Len(paths) |->
        FDiv(FI(paths[s][Len(paths[s])] - initial), FI(initial))]

\* config.confidence_levels, left at its default by every caller, times 100.
ConfidenceLevels == <<1, 5, 10, 25, 50, 75, 90, 95, 99>>

\* The levels of the time-series percentiles, times 100.
TimeSeriesLevels == <<5, 25, 50, 75, 95>>

\* a with x put in front of the first entry that is greater (a ascending).
RECURSIVE Insert(_, _)
Insert(a, x) ==
    IF a = <<>> THEN <<x>>
    ELSE IF FLt(x, Head(a)) THEN <<x>> \o a
    ELSE <<Head(a)>> \o Insert(Tail(a), x)

\* The entries of a in ascending order.
RECURSIVE SortAscending(_)
SortAscending(a) == IF a = <<>> THEN <<>> ELSE Insert(SortAscending(Tail(a)), Head(a))

\* The linear interpolation np.percentile makes between the two entries of
\* the ascending v that surround the virtual index q/100 * (n - 1).
PercentileOfSorted(v, q) ==
    LET n == Len(v)
        lo == (q * (n - 1)) \div 100
        frac == Fin((q * (n - 1)) % 100, 100)
    IN IF lo + 1 >= n THEN v[n]
       ELSE FAdd(v[lo + 1], FMul(frac, FSub(v[lo + 2], v[lo + 1])))

\* A percentile read off the array as it stands, without ordering it.
PercentileUnsorted(a, q) ==
    IF \E i \in 1..Len(a) : IsNaN(a[i]) THEN NaN
    ELSE PercentileOfSorted(a, q)

\* np.percentile(a, q) of a non-empty array: NaN if a holds a NaN.
Percentile(a, q) ==
    IF \E i \in 1..Len(a) : IsNaN(a[i]) THEN NaN
    ELSE PercentileOfSorted(SortAscending(a), q)

\* A selection that keeps every value.
SelectAll(a, v) == a

\* final_values[final_values <= v]
RECURSIVE SelectAtMost(_, _)
SelectAtMost(a, v) ==
    IF a = <<>> THEN <<>>
    ELSE IF FLe(Head(a), v) THEN <<Head(a)>> \o SelectAtMost(Tail(a), v)
    ELSE SelectAtMost(Tail(a), v)

\* es = np.mean(final_values[final_values <= var])
ExpectedShortfall(final_values, var) == FMean(SelectAtMost(final_values, var))

FGe(a, b) == FLe(b, a)

\* A sum of a boolean mask: the number of entries that hold.
CountOfMask(mask) == FI(Cardinality({s \in DOMAIN mask : mask[s]}))

\* np.mean of a boolean mask: the share of the entries that hold.
MeanOfMask(mask) == Fin(Cardinality({s \in DOMAIN mask : mask[s]}), Len(mask))

\* prob_positive = np.mean(returns > 0)
ProbPositive(returns) ==
    MeanOfMask([s \in 1..Len(returns) |-> FGt(returns[s], FI(0))])

\* np.mean(returns <= -pct/100)
ProbLoss(returns, pct) ==
    MeanOfMask([s \in 1..Len(returns) |-> FLe(returns[s], Fin(0 - pct, 100))])

\* np.mean(returns >= pct/100)
ProbGain(returns, pct) ==
    MeanOfMask([s \in 1..Len(returns) |-> FGe(returns[s], Fin(pct, 100))])

\* portfolio_paths[:, day] as floats, c being day + 1.
ColumnValues(paths, c, scale) == [s \in 1..Len(paths) |-> Fin(paths[s][c], scale)]

\* The statistics bundle; np.min of an empty array raises ValueError.
SimulationStatistics(paths, initial, scale, T) ==
    IF Len(paths) = 0 THEN [raised |-> TRUE]
    ELSE
    LET final_values == ColumnValues(paths, Len(paths[1]), scale)
        returns == Returns(paths, initial)
        var_95 == Percentile(final_values, 5)
        var_99 == Percentile(final_values, 1)
        excess_returns ==
            [s \in 1..Len(returns) |->
                FSub(returns[s], AnnualizedRfRate(T))]
        max_drawdown == MaxDrawdown(paths)
    IN [raised |-> FALSE,
        mean_final_value |-> FMean(final_values),
        var_final_value |-> FVar(final_values),
        mean_return |-> FMean(returns),
        var_return |-> FVar(returns),
        min_return |-> FMinSeq(returns),
        max_return |-> FMaxSeq(returns),
        percentiles |->
            [i \in 1..Len(ConfidenceLevels) |->
                Percentile(final_values, ConfidenceLevels[i])],
        time_series_percentiles |->
            [i \in 1..Len(TimeSeriesLevels) |-> [c \in 1..Len(paths[1]) |->
                Percentile(ColumnValues(paths, c, scale), TimeSeriesLevels[i])]],
        var_95 |-> var_95,
        var_99 |-> var_99,
        expected_shortfall_95 |-> ExpectedShortfall(final_values, var_95),
        expected_shortfall_99 |-> ExpectedShortfall(final_values, var_99),
        sharpe_ratio |-> SharpeRatio(excess_returns, returns),
        sortino_ratio |-> SortinoRatio(excess_returns, returns),
        calmar_ratio |-> CalmarRatio(returns, max_drawdown),
        maximum_drawdown |-> max_drawdown,
        downside_deviation_sq |-> DownsideDeviationSq(returns),
        prob_positive |-> ProbPositive(returns),
        prob_loss_5 |-> ProbLoss(returns, 5),
        prob_loss_10 |-> ProbLoss(returns, 10),
        prob_gain_10 |-> ProbGain(returns, 10),
        prob_gain_20 |-> ProbGain(returns, 20)]

(***************************************************************************)
(* State of one engine call and of the threads it starts.                  *)
(***************************************************************************)
VARIABLES
    config,              \* SimulationConfig
    asset_parameters,    \* Dict[str, AssetParameters]
    portfolio_weights,   \* Dict[str, float]
    correlation_matrix,  \* np.ndarray
    pc,                  \* "idle", "running", "returned" or "raised"
    run,                 \* 1 for the first call, 2 for the repeated call
    tasks,               \* the calls of _simulate_portfolio_paths of this run
    rngPos,              \* position of numpy's global generator in its stream
    cholFailed,          \* a Cholesky factorization of this run has failed
    results,             \* 'portfolio_paths' of the returned dict
    statistics,          \* 'statistics' of the returned dict
    error,               \* the exception the call raised
    firstResults         \* 'portfolio_paths' returned by the first call

VARIABLES
    historical_prices,   \* DataFrame: ticker column -> prices, 0 for NaN
    current_prices,      \* Dict[str, float]
    min_history_days,    \* minimum number of historical days required
    parameters,          \* the dict calculate_asset_parameters builds
    column,              \* index of the column the loop handles next
    epc,                 \* "loop" or "done"; "off" outside SpecParams
    defaulted,           \* tickers whose entry is _get_default_parameters'
    excepted             \* tickers whose estimation raised

VARIABLES
    split_n_base_sims,   \* n_base_sims of _run_parallel_simulation
    split_max_workers,   \* config.max_workers as the batch split reads it
    batches,             \* the list of batch sizes it builds
    bpc                  \* "split" or "done"; "off" outside SpecBatches

VARIABLES
    method,              \* argument of calculate_correlation_matrix
    computed,            \* log_returns.corr(...).values as first computed
    corr_matrix,         \* the local corr_matrix
    steps,               \* the statements that have assigned corr_matrix
    cpc                  \* "compute", "check", "repair", "returned", "raised"

VARIABLES
    matrix,              \* argument of _make_positive_semidefinite
    repaired,            \* its return value
    rpc                  \* "call" or "returned"; "off" outside SpecRepair

VARIABLES
    sim_L,               \* L, the Cholesky factor of one _simulate_portfolio_paths call
    sim_Z,               \* Z, the raw shocks
    sim_correlated_Z,    \* correlated_Z
    sim_asset_prices,    \* asset_prices, filled day by day
    sim_portfolio_values,\* portfolio_values, filled day by day
    sim_day,             \* the day the price loop handles next
    spc                  \* "seed", "draw", "correlate", "prices", "done", "raised"

VARIABLES
    allocation,          \* argument of calculate_portfolio_metrics
    risk_metrics,        \* the RiskMetrics it returns
    mpc                  \* "call", "returned", "raised"; "off" elsewhere

VARIABLES
    risk_tolerance,      \* argument of optimize_portfolio
    use_ai_optimization, \* argument of optimize_portfolio
    preferences,         \* an ESG, tax or sector preference was passed
    ai_called,           \* the AI optimizer that was called, or "none"
    attempts,            \* the scipy methods tried so far, in order
    optimized,           \* the PortfolioAllocation returned
    returned_by,         \* the statement that returned it
    opc                  \* "call", "traditional", "fallback", "returned", "raised"

paramVars == <<historical_prices, current_prices, min_history_days, parameters,
               column, epc, defaulted, excepted>>

batchVars == <<split_n_base_sims, split_max_workers, batches, bpc>>

corrVars == <<method, computed, corr_matrix, steps, cpc>>

repairVars == <<matrix, repaired, rpc>>

pathVars == <<sim_L, sim_Z, sim_correlated_Z, sim_asset_prices,
              sim_portfolio_values, sim_day, spc>>

metricVars == <<allocation, risk_metrics, mpc>>

optVars == <<risk_tolerance, use_ai_optimization, preferences, ai_called,
             attempts, optimized, returned_by, opc>>

backVars == <<pathVars, metricVars, optVars>>

auxVars == <<batchVars, corrVars, repairVars, backVars>>

mcVars == <<config, asset_parameters, portfolio_weights, correlation_matrix,
            pc, run, tasks, rngPos, cholFailed, results, statistics, error,
            firstResults>>

vars == <<mcVars, paramVars, auxVars>>

\* No batch split is being computed.
BatchOff ==
    /\ split_n_base_sims = 0
    /\ split_max_workers = 1
    /\ batches = <<>>
    /\ bpc = "off"

\* No correlation matrix is being computed.
CorrOff ==
    /\ method = "pearson"
    /\ computed = <<>>
    /\ corr_matrix = <<>>
    /\ steps = <<>>
    /\ cpc = "off"

\* No repair is being computed.
RepairOff ==
    /\ matrix = <<>>
    /\ repaired = <<>>
    /\ rpc = "off"

\* No call of _simulate_portfolio_paths is being followed step by step.
PathOff ==
    /\ sim_L = <<>>
    /\ sim_Z = <<>>
    /\ sim_correlated_Z = <<>>
    /\ sim_asset_prices = <<>>
    /\ sim_portfolio_values = <<>>
    /\ sim_day = 0
    /\ spc = "off"

\* calculate_portfolio_metrics is not running.
MetricsOff ==
    /\ allocation = <<>>
    /\ risk_metrics = <<>>
    /\ mpc = "off"

\* optimize_portfolio is not running.
OptimizeOff ==
    /\ risk_tolerance = "medium"
    /\ use_ai_optimization = FALSE
    /\ preferences = FALSE
    /\ ai_called = "none"
    /\ attempts = <<>>
    /\ optimized = <<>>
    /\ returned_by = "none"
    /\ opc = "off"

BackOff == PathOff /\ MetricsOff /\ OptimizeOff

\* The estimator is not running.
EstimatorOff ==
    /\ historical_prices = <<>>
    /\ current_prices = <<>>
    /\ min_history_days = 0
    /\ parameters = <<>>
    /\ column = 0
    /\ epc = "off"
    /\ defaulted = {}
    /\ excepted = {}

NoStats == [raised |-> TRUE]

Horizon == config.time_horizon_days

\* n_base_sims: num_simulations // 2 with antithetic variates.
NBaseSims ==
    IF config.use_antithetic_variates THEN config.num_simulations \div 2
    ELSE config.num_simulations

\* initial_portfolio_value, in units of 1/ExpScale(Horizon).
InitialPortfolioValue ==
    InitialValue(asset_parameters, portfolio_weights) * ExpScale(Horizon)

\* A split that forgets the remainder batch.
BatchesWithoutRemainder(n_base_sims, max_workers) ==
    LET batch_size == Max2(1, n_base_sims \div max_workers)
    IN [i \in 1..(n_base_sims \div batch_size) |-> batch_size]

\* batches of _run_parallel_simulation.
Batches(n_base_sims, max_workers) ==
    LET batch_size == Max2(1, n_base_sims \div max_workers)
        full == [i \in 1..(n_base_sims \div batch_size) |-> batch_size]
    IN IF n_base_sims % batch_size > 0
       THEN Append(full, n_base_sims % batch_size)
       ELSE full

NewTask(size) == [size |-> size, st |-> "queued", paths |-> <<>>]

\* The worker threads of the pool that are inside a task.
Running == {i \in 1..Len(tasks) : tasks[i].st = "seeded"}

\* A runner that swallows the exception of a failed batch.
BatchRaisedSwallowed(ts) == FALSE

\* list(executor.map(...)) re-raises the exception of a failed batch; the
\* sequential runner lets it propagate.
BatchRaised(ts) == \E i \in 1..Len(ts) : ts[i].st = "failed"

\* Every batch is done, or one has failed: the main thread stops waiting.
Settled(ts) ==
    \/ \A i \in 1..Len(ts) : ts[i].st = "done"
    \/ \E i \in 1..Len(ts) : ts[i].st = "failed"

\* A combination that takes the batches last to first.
RECURSIVE ConcatenateReversed(_)
ConcatenateReversed(ts) ==
    IF ts = <<>> THEN <<>> ELSE ConcatenateReversed(Tail(ts)) \o Head(ts).paths

\* np.concatenate(batch_results, axis=0)
RECURSIVE Concatenate(_)
Concatenate(ts) ==
    IF ts = <<>> THEN <<>> ELSE Head(ts).paths \o Concatenate(Tail(ts))

\* A reflection around zero instead of around the first row.
ReflectAroundZero(res) ==
    [k \in 1..Len(res) |-> [c \in 1..Len(res[k]) |-> 0 - res[k][c]]]

\* antithetic_results = 2 * results[0:1, :] - results
AntitheticResults(res) ==
    [k \in 1..Len(res) |-> [c \in 1..Len(res[k]) |-> 2 * res[1][c] - res[k][c]]]

\* Both runners apply the antithetic step the same way.
ApplyAntithetic(res) ==
    IF config.use_antithetic_variates THEN res \o AntitheticResults(res) ELSE res

MCInit ==
    /\ config \in [num_simulations : 1..MaxSims,
                   time_horizon_days : 1..MaxHorizon,
                   use_antithetic_variates : BOOLEAN,
                   parallelize : BOOLEAN,
                   max_workers : 1..MaxWorkers]
    /\ config.parallelize \/ config.max_workers = 1
    /\ asset_parameters \in ParamSets
    /\ portfolio_weights \in WeightSets
    /\ correlation_matrix \in CorrSets
    /\ pc = "idle"
    /\ run = 1
    /\ tasks = <<>>
    /\ rngPos = 0
    /\ cholFailed = FALSE
    /\ results = <<>>
    /\ statistics = NoStats
    /\ error = "none"
    /\ firstResults = <<>>
    /\ EstimatorOff
    /\ BatchOff
    /\ CorrOff
    /\ RepairOff
    /\ BackOff

\* run_monte_carlo_simulation up to the dispatch, and the batch list of the
\* parallel runner.
StartRun ==
    /\ pc = "idle"
    /\ pc' = "running"
    /\ tasks' = IF config.parallelize
                THEN LET b == Batches(NBaseSims, config.max_workers)
                     IN [i \in 1..Len(b) |-> NewTask(b[i])]
                ELSE <<NewTask(NBaseSims)>>
    /\ cholFailed' = FALSE
    /\ UNCHANGED <<config, asset_parameters, portfolio_weights,
                   correlation_matrix, run, rngPos, results, statistics,
                   error, firstResults>>
    /\ UNCHANGED <<paramVars, auxVars>>

\* _simulate_portfolio_paths, first part: np.random.seed(42) on the global
\* generator, then np.linalg.cholesky.  A pool thread takes the batches in
\* submission order, at most max_workers at a time.
SeedAndFactor(i) ==
    /\ pc = "running"
    /\ tasks[i].st = "queued"
    /\ \A j \in 1..(i - 1) : tasks[j].st # "queued"
    /\ Cardinality(Running) < config.max_workers
    /\ rngPos' = 0
    /\ LET ok == Cholesky(correlation_matrix).ok
       IN /\ tasks' = [tasks EXCEPT ![i].st = IF ok THEN "seeded" ELSE "failed"]
          /\ cholFailed' = (cholFailed \/ ~ok)
    /\ UNCHANGED <<config, asset_parameters, portfolio_weights,
                   correlation_matrix, pc, run, results, statistics, error,
                   firstResults>>
    /\ UNCHANGED <<paramVars, auxVars>>

\* _simulate_portfolio_paths, second part: the draw from the global
\* generator, then the thread-local path computation.
DrawAndSimulate(i) ==
    /\ pc = "running"
    /\ tasks[i].st = "seeded"
    /\ LET n == tasks[i].size
           Z == StandardNormal(rngPos, n, Horizon, NAssets)
           correlated_Z == Einsum(Z, Cholesky(correlation_matrix).L)
       IN /\ rngPos' = rngPos + n * Horizon * NAssets
          /\ tasks' = [tasks EXCEPT
                 ![i].st = "done",
                 ![i].paths = PortfolioValues(asset_parameters, portfolio_weights,
                                              correlated_Z, Horizon, n)]
    /\ UNCHANGED <<config, asset_parameters, portfolio_weights,
                   correlation_matrix, pc, run, cholFailed, results, statistics,
                   error, firstResults>>
    /\ UNCHANGED <<paramVars, auxVars>>

\* What the call leaves behind: [pc, error, results, statistics].
Outcome ==
    IF BatchRaised(tasks)
    THEN [pc |-> "raised", error |-> "LinAlgError", results |-> <<>>,
          statistics |-> NoStats]
    ELSE IF config.parallelize /\ tasks = <<>>
    THEN \* np.concatenate of an empty list
         [pc |-> "raised", error |-> "ValueError", results |-> <<>>,
          statistics |-> NoStats]
    ELSE LET res == ApplyAntithetic(Concatenate(tasks))
             st == SimulationStatistics(res, InitialPortfolioValue,
                                        ExpScale(Horizon), Horizon)
         IN IF st.raised
            THEN [pc |-> "raised", error |-> "ValueError", results |-> <<>>,
                  statistics |-> NoStats]
            ELSE [pc |-> "returned", error |-> "none", results |-> res,
                  statistics |-> st]

\* The rest of the runner and of run_monte_carlo_simulation, once no thread
\* is inside a task: combine, reflect, compute the statistics, return.  A
\* failed batch ends the call while later batches may still be queued.
CombineAndReturn ==
    /\ pc = "running"
    /\ Running = {}
    /\ Settled(tasks)
    /\ LET o == Outcome
       IN /\ pc' = o.pc
          /\ error' = o.error
          /\ results' = o.results
          /\ statistics' = o.statistics
    /\ UNCHANGED <<config, asset_parameters, portfolio_weights,
                   correlation_matrix, run, tasks, rngPos, cholFailed,
                   firstResults>>
    /\ UNCHANGED <<paramVars, auxVars>>

\* The caller repeats the call with the same arguments.
RunAgain ==
    /\ pc = "returned"
    /\ run = 1
    /\ run' = 2
    /\ pc' = "idle"
    /\ firstResults' = results
    /\ tasks' = <<>>
    /\ results' = <<>>
    /\ statistics' = NoStats
    /\ UNCHANGED <<config, asset_parameters, portfolio_weights,
                   correlation_matrix, rngPos, cholFailed, error>>
    /\ UNCHANGED <<paramVars, auxVars>>

MCNext ==
    \/ StartRun
    \/ \E i \in 1..Len(tasks) : SeedAndFactor(i)
    \/ \E i \in 1..Len(tasks) : DrawAndSimulate(i)
    \/ CombineAndReturn

\* One call of run_monte_carlo_simulation.
Spec == MCInit /\ [][MCNext]_vars

\* Two calls in a row with the same arguments, on a portfolio that holds
\* both instruments.
RepeatInit ==
    /\ MCInit
    /\ portfolio_weights = ("A" :> 1) @@ ("B" :> 1)

RepeatNext == MCNext \/ RunAgain

SpecRepeat == RepeatInit /\ [][RepeatNext]_vars

\* AssetParameters with a volatile first instrument: its daily price factor
\* ranges over 1/4, 1 and 4.
VolatileParamSets ==
    { [A |-> [current_price |-> 2, drift |-> 0, daily_volatility |-> 2],
       B |-> [current_price |-> 1, drift |-> 0, daily_volatility |-> 1]] }

\* One call on a portfolio with a volatile instrument.
VolatileInit ==
    /\ config \in [num_simulations : 1..MaxSims,
                   time_horizon_days : 1..MaxHorizon,
                   use_antithetic_variates : BOOLEAN,
                   parallelize : BOOLEAN,
                   max_workers : 1..MaxWorkers]
    /\ config.parallelize \/ config.max_workers = 1
    /\ asset_parameters \in VolatileParamSets
    /\ portfolio_weights \in WeightSets
    /\ correlation_matrix \in CorrSets
    /\ pc = "idle"
    /\ run = 1
    /\ tasks = <<>>
    /\ rngPos = 0
    /\ cholFailed = FALSE
    /\ results = <<>>
    /\ statistics = NoStats
    /\ error = "none"
    /\ firstResults = <<>>
    /\ EstimatorOff
    /\ BatchOff
    /\ CorrOff
    /\ RepairOff
    /\ BackOff

SpecVolatile == VolatileInit /\ [][MCNext]_vars

(***************************************************************************)
(* One call of _simulate_portfolio_paths, statement by statement: seed and *)
(* factor, draw, correlate, then one loop iteration per day.  n_sims is    *)
(* config.num_simulations.  Another thread's batch may draw from the       *)
(* global generator between this call's seed and its own draw.             *)
(***************************************************************************)
MaxForeignDraw == 3

engineArgs == <<config, asset_parameters, portfolio_weights, correlation_matrix,
                pc, run, tasks, cholFailed, results, statistics, error,
                firstResults>>

PathsInit ==
    /\ config \in [num_simulations : 1..MaxSims,
                   time_horizon_days : 1..MaxHorizon,
                   use_antithetic_variates : {FALSE},
                   parallelize : {FALSE},
                   max_workers : {1}]
    /\ asset_parameters \in ParamSets \cup VolatileParamSets
    /\ portfolio_weights \in WeightSets
    /\ correlation_matrix \in CorrSets
    /\ pc = "idle"
    /\ run = 1
    /\ tasks = <<>>
    /\ rngPos = 0
    /\ cholFailed = FALSE
    /\ results = <<>>
    /\ statistics = NoStats
    /\ error = "none"
    /\ firstResults = <<>>
    /\ sim_L = <<>>
    /\ sim_Z = <<>>
    /\ sim_correlated_Z = <<>>
    /\ sim_asset_prices = <<>>
    /\ sim_portfolio_values = <<>>
    /\ sim_day = 0
    /\ spc = "seed"
    /\ MetricsOff
    /\ OptimizeOff
    /\ EstimatorOff
    /\ BatchOff
    /\ CorrOff
    /\ RepairOff

\* portfolio_values = np.zeros(..); portfolio_values[:, 0] = initial_value;
\* np.random.seed(42); L = np.linalg.cholesky(correlation_matrix)
SeedAndCholesky ==
    /\ spc = "seed"
    /\ rngPos' = 0
    /\ sim_portfolio_values' =
           [s \in 1..config.num_simulations |-> [c \in 1..(Horizon + 1) |->
               IF c = 1 THEN InitialValue(asset_parameters, portfolio_weights)
                             * ExpScale(Horizon)
               ELSE 0]]
    /\ IF Cholesky(correlation_matrix).ok
       THEN sim_L' = Cholesky(correlation_matrix).L /\ spc' = "draw"
       ELSE sim_L' = <<>> /\ spc' = "raised"
    /\ UNCHANGED <<sim_Z, sim_correlated_Z, sim_asset_prices, sim_day>>
    /\ UNCHANGED <<engineArgs, paramVars, metricVars, optVars, batchVars,
                   corrVars, repairVars>>

\* A batch in another thread draws m numbers from the global generator.
ForeignDraw ==
    /\ spc = "draw"
    /\ \E m \in 1..MaxForeignDraw :
           /\ rngPos + m <= MaxForeignDraw
           /\ rngPos' = rngPos + m
    /\ UNCHANGED <<sim_L, sim_Z, sim_correlated_Z, sim_asset_prices,
                   sim_portfolio_values, sim_day, spc>>
    /\ UNCHANGED <<engineArgs, paramVars, metricVars, optVars, batchVars,
                   corrVars, repairVars>>

\* Z = np.random.standard_normal((n_sims, time_horizon_days, n_assets))
DrawShocks ==
    /\ spc = "draw"
    /\ sim_Z' = StandardNormal(rngPos, config.num_simulations, Horizon, NAssets)
    /\ rngPos' = rngPos + config.num_simulations * Horizon * NAssets
    /\ spc' = "correlate"
    /\ UNCHANGED <<sim_L, sim_correlated_Z, sim_asset_prices,
                   sim_portfolio_values, sim_day>>
    /\ UNCHANGED <<engineArgs, paramVars, metricVars, optVars, batchVars,
                   corrVars, repairVars>>

\* correlated_Z = np.einsum('ijk,lk->ijl', Z, L); asset_prices = np.zeros(..);
\* asset_prices[:, 0, i] = current_price
Correlate ==
    /\ spc = "correlate"
    /\ sim_correlated_Z' = Einsum(sim_Z, sim_L)
    /\ sim_asset_prices' =
           [s \in 1..config.num_simulations |-> [c \in 1..(Horizon + 1) |->
               [i \in 1..NAssets |->
                   IF c = 1
                   THEN asset_parameters[Tickers[i]].current_price * ExpScale(Horizon)
                   ELSE 0]]]
    /\ sim_day' = 1
    /\ spc' = "prices"
    /\ UNCHANGED <<rngPos, sim_L, sim_Z, sim_portfolio_values>>
    /\ UNCHANGED <<engineArgs, paramVars, metricVars, optVars, batchVars,
                   corrVars, repairVars>>

\* asset_prices[:, day, i] = asset_prices[:, day-1, i] * np.exp(log_return)
PricesOfDay(prices, day) ==
    [s \in 1..Len(prices) |->
        [prices[s] EXCEPT ![day + 1] =
            [i \in 1..NAssets |->
                TimesExp(prices[s][day][i],
                         LogReturn(asset_parameters, sim_correlated_Z[s], day, i))]]]

\* portfolio_values[:, day] += weight * asset_prices[:, day, i], if weight > 0
RECURSIVE ValueOfDay(_, _)
ValueOfDay(row, i) ==
    IF i = 0 THEN 0
    ELSE ValueOfDay(row, i - 1)
         + (IF WeightOf(portfolio_weights, Tickers[i]) > 0
            THEN WeightOf(portfolio_weights, Tickers[i]) * row[i]
            ELSE 0)

\* One iteration of the loop over the days.
PriceDay ==
    /\ spc = "prices"
    /\ sim_day <= Horizon
    /\ sim_asset_prices' = PricesOfDay(sim_asset_prices, sim_day)
    /\ sim_portfolio_values' =
           [s \in 1..Len(sim_portfolio_values) |->
               [sim_portfolio_values[s] EXCEPT ![sim_day + 1] =
                   ValueOfDay(sim_asset_prices'[s][sim_day + 1], NAssets)]]
    /\ sim_day' = sim_day + 1
    /\ UNCHANGED <<rngPos, sim_L, sim_Z, sim_correlated_Z, spc>>
    /\ UNCHANGED <<engineArgs, paramVars, metricVars, optVars, batchVars,
                   corrVars, repairVars>>

\* return portfolio_values
ReturnPaths ==
    /\ spc = "prices"
    /\ sim_day > Horizon
    /\ spc' = "done"
    /\ UNCHANGED <<rngPos, sim_L, sim_Z, sim_correlated_Z, sim_asset_prices,
                   sim_portfolio_values, sim_day>>
    /\ UNCHANGED <<engineArgs, paramVars, metricVars, optVars, batchVars,
                   corrVars, repairVars>>

PathsNext ==
    \/ SeedAndCholesky
    \/ ForeignDraw
    \/ DrawShocks
    \/ Correlate
    \/ PriceDay
    \/ ReturnPaths

SpecPaths == PathsInit /\ [][PathsNext]_vars

(***************************************************************************)
(* calculate_asset_parameters: one loop iteration per ticker column.       *)
(* Prices are powers of two, so that a log-return is a whole number; 0     *)
(* stands for a NaN cell.  skewness and kurtosis are not rationals and are *)
(* left out of the AssetParameters record.                                 *)
(***************************************************************************)
TradingDaysPerYear == 252

RECURSIVE Log2(_)
Log2(p) == IF p <= 1 THEN 0 ELSE 1 + Log2(p \div 2)

\* Series.dropna()
RECURSIVE DropNa(_)
DropNa(col) ==
    IF col = <<>> THEN <<>>
    ELSE IF Head(col) = 0 THEN DropNa(Tail(col))
    ELSE <<Head(col)>> \o DropNa(Tail(col))

\* np.log(price_series / price_series.shift(1)).dropna()
LogReturns(price_series) ==
    [i \in 1..(Len(price_series) - 1) |->
        FI(Log2(price_series[i + 1]) - Log2(price_series[i]))]

\* The square of Series.std() (ddof = 1): NaN below two observations.
SampleVar(s) ==
    IF Len(s) <= 1 THEN NaN
    ELSE LET m == FMean(s)
         IN FDiv(FSum([i \in 1..Len(s) |-> FMul(FSub(s[i], m), FSub(s[i], m))]),
                 FI(Len(s) - 1))

\* current_prices.get(ticker, default)
CurrentPrice(t, default) ==
    IF t \in DOMAIN current_prices THEN current_prices[t] ELSE default

\* _get_default_parameters: 8% annual return, 16% annual volatility,
\* Sharpe 0.5, no historical data.
DefaultParameters(t, current_price) ==
    LET daily_mean_return == Fin(8, 100 * TradingDaysPerYear)
        daily_volatility_sq == Fin(16 * 16, 100 * 100 * TradingDaysPerYear)
    IN [ticker |-> t,
        current_price |-> current_price,
        daily_mean_return |-> daily_mean_return,
        daily_volatility_sq |-> daily_volatility_sq,
        drift |-> FSub(daily_mean_return, FMul(Fin(1, 2), daily_volatility_sq)),
        sharpe_ratio |-> Ratio(Fin(1, 2), FI(1)),
        lookback_days |-> 0]

\* The AssetParameters estimated from a non-empty price series.
EstimatedParameters(t, price_series) ==
    LET log_returns == LogReturns(price_series)
        daily_mean_return == FMean(log_returns)
        daily_volatility_sq == SampleVar(log_returns)
        excess_returns ==
            [i \in 1..Len(log_returns) |-> FSub(log_returns[i], DailyRfRate)]
    IN [ticker |-> t,
        current_price |-> CurrentPrice(t, price_series[Len(price_series)]),
        daily_mean_return |-> daily_mean_return,
        daily_volatility_sq |-> daily_volatility_sq,
        drift |-> FSub(daily_mean_return, FMul(Fin(1, 2), daily_volatility_sq)),
        sharpe_ratio |-> IF FGt(daily_volatility_sq, FI(0))
                         THEN Ratio(FMean(excess_returns), daily_volatility_sq)
                         ELSE ZeroRatio,
        lookback_days |-> Len(log_returns)]

\* How the loop body ends for ticker t.  price_series.iloc[-1] raises
\* IndexError on an empty series, in the insufficient-data branch (it is
\* evaluated as the default argument of .get) and in the estimation.
Branch(t) ==
    LET price_series == DropNa(historical_prices[t])
    IN IF Len(price_series) = 0 THEN "exception"
       ELSE IF Len(price_series) < min_history_days THEN "insufficient"
       ELSE "estimated"

\* The entry the loop body stores for ticker t.
Entry(t) ==
    LET price_series == DropNa(historical_prices[t])
    IN IF Branch(t) = "exception"
       THEN DefaultParameters(t, CurrentPrice(t, 100))
       ELSE IF Branch(t) = "insufficient"
       THEN DefaultParameters(t, CurrentPrice(t, price_series[Len(price_series)]))
       ELSE EstimatedParameters(t, price_series)

\* A loop body whose except clause skips the ticker.
LoopBodySkipping(params, t) ==
    IF Branch(t) = "exception" THEN params ELSE (t :> Entry(t)) @@ params

\* The loop body: parameters[ticker] = ..., inside try/except.
LoopBody(params, t) == (t :> Entry(t)) @@ params

\* calculate_asset_parameters over the columns cols.
RECURSIVE CalculateOver(_)
CalculateOver(cols) ==
    IF cols = <<>> THEN <<>>
    ELSE LoopBody(CalculateOver(SubSeq(cols, 1, Len(cols) - 1)), cols[Len(cols)])

\* The columns without ticker t.
RECURSIVE Without(_, _)
Without(cols, t) ==
    IF cols = <<>> THEN <<>>
    ELSE IF Head(cols) = t THEN Without(Tail(cols), t)
    ELSE <<Head(cols)>> \o Without(Tail(cols), t)

\* No engine call is in progress.
EngineOff ==
    /\ config = [num_simulations |-> 1, time_horizon_days |-> 1,
                 use_antithetic_variates |-> FALSE, parallelize |-> FALSE,
                 max_workers |-> 1]
    /\ asset_parameters = <<>>
    /\ portfolio_weights = <<>>
    /\ correlation_matrix = <<>>
    /\ pc = "off"
    /\ run = 1
    /\ tasks = <<>>
    /\ rngPos = 0
    /\ cholFailed = FALSE
    /\ results = <<>>
    /\ statistics = NoStats
    /\ error = "none"
    /\ firstResults = <<>>

ParamsInit ==
    /\ historical_prices \in
           [{Tickers[i] : i \in 1..NAssets} -> [1..MaxHistory -> {0, 1, 2}]]
    /\ current_prices \in {<<>>, ("A" :> 3)}
    /\ min_history_days \in 1..MaxHistory
    /\ parameters = <<>>
    /\ column = 1
    /\ epc = "loop"
    /\ defaulted = {}
    /\ excepted = {}
    /\ EngineOff
    /\ BatchOff
    /\ CorrOff
    /\ RepairOff
    /\ BackOff

\* One iteration of "for ticker in historical_prices.columns".
EstimateTicker ==
    /\ epc = "loop"
    /\ column <= NAssets
    /\ LET t == Tickers[column]
       IN /\ parameters' = LoopBody(parameters, t)
          /\ defaulted' = IF Branch(t) = "estimated" THEN defaulted
                          ELSE defaulted \cup {t}
          /\ excepted' = IF Branch(t) = "exception" THEN excepted \cup {t}
                         ELSE excepted
    /\ column' = column + 1
    /\ UNCHANGED <<historical_prices, current_prices, min_history_days, epc>>
    /\ UNCHANGED <<mcVars, auxVars>>

\* return parameters
ReturnParameters ==
    /\ epc = "loop"
    /\ column > NAssets
    /\ epc' = "done"
    /\ UNCHANGED <<historical_prices, current_prices, min_history_days,
                   parameters, column, defaulted, excepted>>
    /\ UNCHANGED <<mcVars, auxVars>>

ParamsNext == EstimateTicker \/ ReturnParameters

SpecParams == ParamsInit /\ [][ParamsNext]_vars

(***************************************************************************)
(* One engine call on any SimulationConfig the dataclass accepts: the      *)
(* dataclass checks no field, so the counts may be 0.                      *)
(***************************************************************************)
ConfigInit ==
    /\ config \in [num_simulations : 0..MaxSims,
                   time_horizon_days : 0..MaxHorizon,
                   use_antithetic_variates : BOOLEAN,
                   parallelize : BOOLEAN,
                   max_workers : 1..MaxWorkers]
    /\ config.parallelize \/ config.max_workers = 1
    /\ asset_parameters \in ParamSets
    /\ portfolio_weights \in {("A" :> 1) @@ ("B" :> 1), ("A" :> 1)}
    /\ correlation_matrix = << <<1, 0>>, <<0, 1>> >>
    /\ pc = "idle"
    /\ run = 1
    /\ tasks = <<>>
    /\ rngPos = 0
    /\ cholFailed = FALSE
    /\ results = <<>>
    /\ statistics = NoStats
    /\ error = "none"
    /\ firstResults = <<>>
    /\ EstimatorOff
    /\ BatchOff
    /\ CorrOff
    /\ RepairOff
    /\ BackOff

SpecConfig == ConfigInit /\ [][MCNext]_vars

(***************************************************************************)
(* The batch split of _run_parallel_simulation on its own, over a wider    *)
(* range of simulation and worker counts than one engine call explores.    *)
(***************************************************************************)
BatchInit ==
    /\ split_n_base_sims \in 0..MaxBaseSims
    /\ split_max_workers \in 1..MaxPoolWorkers
    /\ batches = <<>>
    /\ bpc = "split"
    /\ EngineOff
    /\ EstimatorOff
    /\ CorrOff
    /\ RepairOff
    /\ BackOff

\* "Divide simulations into batches"
SplitBatches ==
    /\ bpc = "split"
    /\ batches' = Batches(split_n_base_sims, split_max_workers)
    /\ bpc' = "done"
    /\ UNCHANGED <<split_n_base_sims, split_max_workers>>
    /\ UNCHANGED <<mcVars, paramVars, backVars, corrVars, repairVars>>

BatchNext == SplitBatches

SpecBatches == BatchInit /\ [][BatchNext]_vars

(***************************************************************************)
(* Binary floating point, for the correlation matrix and its repair, where *)
(* rounding decides the result.  A float is NaN or m * 2^e with an odd (or *)
(* zero) whole m of at most SigBits bits; every operation returns the      *)
(* exact result rounded to nearest, ties to even, as IEEE 754 does with    *)
(* the 53 bits of a float64.  The exponent is unbounded: nothing in the    *)
(* modelled code overflows or underflows.                                  *)
(***************************************************************************)
RECURSIVE BitLen(_)
BitLen(m) == IF m = 0 THEN 0 ELSE 1 + BitLen(m \div 2)

BinNaN == [nan |-> TRUE, m |-> 0, e |-> 0]

\* The float m * 2^e in its one normal form; m must fit SigBits bits.
RECURSIVE Bin(_, _)
Bin(m, e) ==
    IF m = 0 THEN [nan |-> FALSE, m |-> 0, e |-> 0]
    ELSE IF m % 2 = 0 THEN Bin(m \div 2, e + 1)
    ELSE [nan |-> FALSE, m |-> m, e |-> e]

\* The float nearest to the whole number M times 2^e, ties to even.
BinRound(M, e) ==
    LET a == Abs(M)
        len == BitLen(a)
        sh == len - SigBits
        q == a \div Pow2(sh)
        r == a % Pow2(sh)
        half == Pow2(sh - 1)
        up == r > half \/ (r = half /\ q % 2 = 1)
    IN IF len <= SigBits THEN Bin(M, e)
       ELSE Bin(Sign(M) * (IF up THEN q + 1 ELSE q), e + sh)

BinOfInt(i) == BinRound(i, 0)

BinIsZero(a) == ~a.nan /\ a.m = 0

BinNeg(a) == IF a.nan THEN BinNaN ELSE Bin(-a.m, a.e)

BinAbs(a) == IF a.nan THEN BinNaN ELSE Bin(Abs(a.m), a.e)

\* One more than the exponent of the leading bit of a non-zero float.
BinTop(a) == a.e + BitLen(Abs(a.m))

\* a + b.  When the operands lie more than SigBits + 2 binary places apart
\* the smaller one is below a quarter of the last place of the larger.
BinAdd(a, b) ==
    IF a.nan \/ b.nan THEN BinNaN
    ELSE IF a.m = 0 THEN b
    ELSE IF b.m = 0 THEN a
    ELSE IF BinTop(a) - BinTop(b) > SigBits + 2 THEN a
    ELSE IF BinTop(b) - BinTop(a) > SigBits + 2 THEN b
    ELSE LET e == IF a.e < b.e THEN a.e ELSE b.e
         IN BinRound(a.m * Pow2(a.e - e) + b.m * Pow2(b.e - e), e)

BinSub(a, b) == BinAdd(a, BinNeg(b))

BinMul(a, b) ==
    IF a.nan \/ b.nan THEN BinNaN ELSE BinRound(a.m * b.m, a.e + b.e)

\* Long division: k more binary places of r / d, r < d, after the places q.
RECURSIVE LongDiv(_, _, _, _)
LongDiv(r, d, k, q) ==
    IF k = 0 THEN [q |-> q, r |-> r]
    ELSE LongDiv((2 * r) % d, d, k - 1, 2 * q + ((2 * r) \div d))

\* The float nearest to n / d for whole n >= 0 and d > 0: enough places
\* for SigBits + 2 bits of quotient, and one last bit that says whether a
\* remainder is left.
BinOfRatio(n, d) ==
    LET k == Max2(0, BitLen(d) - BitLen(n) + SigBits + 3)
        res == LongDiv(n % d, d, k, n \div d)
    IN BinRound(2 * res.q + (IF res.r = 0 THEN 0 ELSE 1), -k - 1)

\* a / b for b # 0, the only divisions the modelled code makes.
BinDiv(a, b) ==
    IF a.nan \/ b.nan \/ b.m = 0 THEN BinNaN
    ELSE LET quot == BinOfRatio(Abs(a.m), Abs(b.m))
         IN Bin(Sign(a.m) * Sign(b.m) * quot.m, quot.e + a.e - b.e)

\* The largest r with r * r <= x, found bit by bit from 2^bit down.
RECURSIVE ISqrtBits(_, _, _)
ISqrtBits(x, r, bit) ==
    IF bit < 0 THEN r
    ELSE IF (r + Pow2(bit)) * (r + Pow2(bit)) <= x
    THEN ISqrtBits(x, r + Pow2(bit), bit - 1)
    ELSE ISqrtBits(x, r, bit - 1)

\* sqrt(a): the mantissa is scaled by an even power of two to 2 * SigBits + 4
\* bits or more, its whole square root taken, and the result rounded.
BinSqrt(a) ==
    IF a.nan \/ a.m < 0 THEN BinNaN
    ELSE IF a.m = 0 THEN a
    ELSE LET m1 == IF a.e % 2 = 0 THEN a.m ELSE 2 * a.m
             e1 == IF a.e % 2 = 0 THEN a.e ELSE a.e - 1
             j == Max2(0, (2 * SigBits + 5 - BitLen(m1)) \div 2)
             x == m1 * Pow2(2 * j)
             r == ISqrtBits(x, 0, SigBits + 3)
         IN BinRound(2 * r + (IF r * r = x THEN 0 ELSE 1), ((e1 - 2 * j) \div 2) - 1)

\* a < b, exactly; false when either is NaN.
BinLt(a, b) ==
    /\ ~a.nan
    /\ ~b.nan
    /\ IF Sign(a.m) # Sign(b.m) THEN Sign(a.m) < Sign(b.m)
       ELSE IF a.m = 0 THEN FALSE
       ELSE LET len == Max2(BitLen(Abs(a.m)), BitLen(Abs(b.m)))
                am == Abs(a.m) * Pow2(len - BitLen(Abs(a.m)))
                bm == Abs(b.m) * Pow2(len - BitLen(Abs(b.m)))
                absLess == \/ BinTop(a) < BinTop(b)
                           \/ BinTop(a) = BinTop(b) /\ am < bm
                absMore == \/ BinTop(a) > BinTop(b)
                           \/ BinTop(a) = BinTop(b) /\ am > bm
            IN IF a.m > 0 THEN absLess ELSE absMore

\* np.maximum(a, b): NaN propagates.
BinMax(a, b) == IF a.nan \/ b.nan THEN BinNaN ELSE IF BinLt(a, b) THEN b ELSE a

(***************************************************************************)
(* np.linalg.eigh and _make_positive_semidefinite on matrices of up to two *)
(* rows.  eigh reads the lower triangle and hands a 2 x 2 block with a     *)
(* non-zero off-diagonal entry to LAPACK's dlaev2, whose statements are    *)
(* translated one by one; it returns the eigenvalues in ascending order    *)
(* with the eigenvectors as columns.                                       *)
(***************************************************************************)
BinZero == BinOfInt(0)

BinOne == BinOfInt(1)

BinTwo == BinOfInt(2)

BinHalf == Bin(1, -1)

\* The literal 1e-8 of _make_positive_semidefinite, as a float.
EigenvalueFloor == BinOfRatio(1, 100000000)

\* dlaev2: big * sqrt(1 + q^2), the root rt for q = small / big.
ScaledRoot(big, q) == BinMul(big, BinSqrt(BinAdd(BinOne, BinMul(q, q))))

\* dlaev2: rt = sqrt(df^2 + tb^2) from adf = |df| and ab = |tb|.
Dlaev2Rt(adf, ab) ==
    IF BinLt(ab, adf) THEN ScaledRoot(adf, BinDiv(ab, adf))
    ELSE IF BinLt(adf, ab) THEN ScaledRoot(ab, BinDiv(adf, ab))
    ELSE BinMul(ab, BinSqrt(BinTwo))

\* dlaev2: the eigenvalue of larger absolute value.
Dlaev2Rt1(sm, rt) ==
    IF BinLt(sm, BinZero) THEN BinMul(BinHalf, BinSub(sm, rt))
    ELSE IF BinLt(BinZero, sm) THEN BinMul(BinHalf, BinAdd(sm, rt))
    ELSE BinMul(BinHalf, rt)

\* dlaev2: the other eigenvalue; acmx and acmn are the diagonal entries of
\* larger and of smaller absolute value.
Dlaev2Rt2(a, b, c, sm, rt, rt1) ==
    IF BinIsZero(sm) THEN BinNeg(BinMul(BinHalf, rt))
    ELSE BinSub(BinMul(BinDiv(IF BinLt(BinAbs(c), BinAbs(a)) THEN a ELSE c, rt1),
                       IF BinLt(BinAbs(c), BinAbs(a)) THEN c ELSE a),
                BinMul(BinDiv(b, rt1), b))

\* dlaev2: sn1 = 1 / sqrt(1 + ct^2) and cs1 = ct * sn1.
VectorFromCt(ct, sn1) == [cs1 |-> BinMul(ct, sn1), sn1 |-> sn1]

\* dlaev2: cs1 = 1 / sqrt(1 + tn^2) and sn1 = tn * cs1.
VectorFromTn(tn, cs1) == [cs1 |-> cs1, sn1 |-> BinMul(tn, cs1)]

InverseRoot(t) == BinDiv(BinOne, BinSqrt(BinAdd(BinOne, BinMul(t, t))))

\* dlaev2: the unit vector (cs1, sn1) from tb = 2 b and cs = df +- rt.
Dlaev2Vector(tb, cs) ==
    IF BinLt(BinAbs(tb), BinAbs(cs))
    THEN VectorFromCt(BinDiv(BinNeg(tb), cs), InverseRoot(BinDiv(BinNeg(tb), cs)))
    ELSE IF BinIsZero(tb) THEN [cs1 |-> BinOne, sn1 |-> BinZero]
    ELSE VectorFromTn(BinDiv(BinNeg(cs), tb), InverseRoot(BinDiv(BinNeg(cs), tb)))

\* dlaev2: the vector is turned by a quarter when sgn1 = sgn2.
Dlaev2Result(sm, df, rt1, rt2, vec) ==
    [rt1 |-> rt1,
     rt2 |-> rt2,
     cs1 |-> IF BinLt(sm, BinZero) = BinLt(df, BinZero) THEN BinNeg(vec.sn1) ELSE vec.cs1,
     sn1 |-> IF BinLt(sm, BinZero) = BinLt(df, BinZero) THEN vec.cs1 ELSE vec.sn1]

Dlaev2Roots(a, b, c, sm, df, tb, rt, rt1) ==
    Dlaev2Result(sm, df, rt1, Dlaev2Rt2(a, b, c, sm, rt, rt1),
                 Dlaev2Vector(tb, IF BinLt(df, BinZero) THEN BinSub(df, rt)
                                  ELSE BinAdd(df, rt)))

Dlaev2Sums(a, b, c, sm, df, tb, rt) ==
    Dlaev2Roots(a, b, c, sm, df, tb, rt, Dlaev2Rt1(sm, rt))

\* dlaev2(a, b, c): rt1 is the eigenvalue of larger absolute value of
\* [[a, b], [b, c]], rt2 the other, (cs1, sn1) the unit eigenvector of rt1.
Dlaev2(a, b, c) ==
    Dlaev2Sums(a, b, c, BinAdd(a, c), BinSub(a, c), BinAdd(b, b),
               Dlaev2Rt(BinAbs(BinSub(a, c)), BinAbs(BinAdd(b, b))))

\* np.eye(n)
Identity(n) == [i \in 1..n |-> [j \in 1..n |-> IF i = j THEN BinOne ELSE BinZero]]

\* The eigenvalues in ascending order, each with its eigenvector as a column.
Ascending(d) ==
    IF BinLt(d.rt2, d.rt1)
    THEN [w |-> <<d.rt2, d.rt1>>,
          v |-> << <<BinNeg(d.sn1), d.cs1>>, <<d.cs1, d.sn1>> >>]
    ELSE [w |-> <<d.rt1, d.rt2>>,
          v |-> << <<d.cs1, BinNeg(d.sn1)>>, <<d.sn1, d.cs1>> >>]

\* eigenvalues w and eigenvectors v (columns) of a symmetric matrix.
Eigh(m) ==
    IF Len(m) <= 1
    THEN [w |-> [i \in 1..Len(m) |-> m[1][1]], v |-> Identity(Len(m))]
    ELSE IF BinIsZero(m[2][1])
    THEN IF BinLt(m[2][2], m[1][1])
         THEN [w |-> <<m[2][2], m[1][1]>>,
               v |-> << <<BinZero, BinOne>>, <<BinOne, BinZero>> >>]
         ELSE [w |-> <<m[1][1], m[2][2]>>, v |-> Identity(2)]
    ELSE Ascending(Dlaev2(m[1][1], m[2][1], m[2][2]))

\* x[1] * y[1] + ... + x[k] * y[k], rounded after every operation.
RECURSIVE BinDot(_, _, _)
BinDot(x, y, k) ==
    IF k = 1 THEN BinMul(x[1], y[1])
    ELSE BinAdd(BinDot(x, y, k - 1), BinMul(x[k], y[k]))

\* x @ y for square matrices of the same size.
MatMul(x, y) ==
    [i \in 1..Len(x) |-> [j \in 1..Len(x) |->
        BinDot(x[i], [k \in 1..Len(x) |-> y[k][j]], Len(x))]]

Transpose(x) == [i \in 1..Len(x) |-> [j \in 1..Len(x) |-> x[j][i]]]

\* np.diag(w)
Diag(w) == [i \in 1..Len(w) |-> [j \in 1..Len(w) |-> IF i = j THEN w[i] ELSE BinZero]]

\* eigenvecs @ np.diag(eigenvals) @ eigenvecs.T
Reconstruct(eigenvals, eigenvecs) ==
    MatMul(MatMul(eigenvecs, Diag(eigenvals)), Transpose(eigenvecs))

\* A repair that does not raise the eigenvalues.
Unclipped(eig) == Reconstruct(eig.w, eig.v)

\* np.maximum(eigenvals, 1e-8) and the product of the three matrices.
Clipped(eig) ==
    Reconstruct([i \in 1..Len(eig.w) |-> BinMax(eig.w[i], EigenvalueFloor)], eig.v)

\* _make_positive_semidefinite
MakePositiveSemidefinite(m) == Clipped(Eigh(m))

(***************************************************************************)
(* Exact arithmetic on sums of products of floats, to state facts about    *)
(* the eigenvalues of a returned matrix without rounding.  A term is the   *)
(* number m * 2^e; a whole number of any size is the sequence of its       *)
(* digits in base 1024, lowest first.                                      *)
(***************************************************************************)
TermOf(x) == [m |-> x.m, e |-> x.e]

\* The exact product x * y * 2^k of two floats; Minus negates a term.
Product(x, y, k) == [m |-> x.m * y.m, e |-> x.e + y.e + k]

Minus(t) == [m |-> -t.m, e |-> t.e]

\* The smallest exponent among the terms ts.
RECURSIVE MinExp(_)
MinExp(ts) ==
    IF Len(ts) = 1 THEN ts[1].e
    ELSE IF ts[1].e < MinExp(Tail(ts)) THEN ts[1].e ELSE MinExp(Tail(ts))

Digit(x, i) == IF i <= Len(x) THEN x[i] ELSE 0

\* m * 2^sh for 0 <= m < 2^21 and sh >= 0.
Shifted(m, sh) ==
    [i \in 1..((sh \div 10) + 4) |->
        IF i <= sh \div 10 THEN 0
        ELSE ((m * Pow2(sh % 10)) \div Pow2(10 * (i - 1 - (sh \div 10)))) % 1024]

RECURSIVE AddFrom(_, _, _, _)
AddFrom(x, y, i, carry) ==
    IF i > Max2(Len(x), Len(y)) + 1 THEN <<>>
    ELSE LET t == Digit(x, i) + Digit(y, i) + carry
         IN <<t % 1024>> \o AddFrom(x, y, i + 1, t \div 1024)

BigAdd(x, y) == AddFrom(x, y, 1, 0)

\* The sum of |t| * 2^-low over the terms t of ts with the given sign.
RECURSIVE BigSum(_, _, _)
BigSum(ts, sign, low) ==
    IF ts = <<>> THEN <<>>
    ELSE IF Sign(Head(ts).m) = sign
    THEN BigAdd(Shifted(Abs(Head(ts).m), Head(ts).e - low), BigSum(Tail(ts), sign, low))
    ELSE BigSum(Tail(ts), sign, low)

\* x <= y, comparing the digits from position i down.
RECURSIVE LeqFrom(_, _, _)
LeqFrom(x, y, i) ==
    IF i = 0 THEN TRUE
    ELSE IF Digit(x, i) # Digit(y, i) THEN Digit(x, i) < Digit(y, i)
    ELSE LeqFrom(x, y, i - 1)

\* The sum of the terms ts is >= 0.
SumIsNonNegative(ts) ==
    LET neg == BigSum(ts, -1, MinExp(ts))
        pos == BigSum(ts, 1, MinExp(ts))
    IN LeqFrom(neg, pos, Max2(Len(neg), Len(pos)))

\* Every eigenvalue of the matrix r of up to two rows is real and >= f > 0:
\* for two rows the characteristic polynomial x^2 - tr * x + det has a
\* non-negative discriminant, its vertex tr / 2 is >= f and its value at f
\* is >= 0.
AllEigenvaluesAtLeast(r, f) ==
    /\ \A i, j \in 1..Len(r) : ~r[i][j].nan
    /\ Len(r) = 1 => ~BinLt(r[1][1], f)
    /\ Len(r) = 2 =>
        /\ SumIsNonNegative(<<Product(r[1][1], r[1][1], 0),
                              Minus(Product(r[1][1], r[2][2], 1)),
                              Product(r[2][2], r[2][2], 0),
                              Product(r[1][2], r[2][1], 2)>>)
        /\ SumIsNonNegative(<<TermOf(r[1][1]), TermOf(r[2][2]),
                              Minus(Product(f, BinOne, 1))>>)
        /\ SumIsNonNegative(<<Product(f, f, 0),
                              Minus(Product(f, r[1][1], 0)),
                              Minus(Product(f, r[2][2], 0)),
                              Product(r[1][1], r[2][2], 0),
                              Minus(Product(r[1][2], r[2][1], 0))>>)

(***************************************************************************)
(* _make_positive_semidefinite on its own, over symmetric matrices of one  *)
(* and two rows: whole entries, at unit scale and scaled far down so that  *)
(* the eigenvalue floor is of the size of the entries' rounding.           *)
(***************************************************************************)
Entries == {-1, 0, 1, 2}

Scales == {0, -20}

SymmetricMatrices ==
    {<< <<Bin(a, sc)>> >> : a \in Entries, sc \in Scales}
    \cup {<< <<Bin(a, sc), Bin(b, sc)>>, <<Bin(b, sc), Bin(c, sc)>> >> :
            a \in Entries, b \in Entries, c \in Entries, sc \in Scales}

RepairInit ==
    /\ matrix \in SymmetricMatrices
    /\ repaired = <<>>
    /\ rpc = "call"
    /\ EngineOff
    /\ EstimatorOff
    /\ BatchOff
    /\ CorrOff
    /\ BackOff

\* return eigenvecs @ np.diag(eigenvals) @ eigenvecs.T
Repair ==
    /\ rpc = "call"
    /\ repaired' = MakePositiveSemidefinite(matrix)
    /\ rpc' = "returned"
    /\ UNCHANGED matrix
    /\ UNCHANGED <<mcVars, paramVars, backVars, batchVars, corrVars>>

RepairNext == Repair

SpecRepair == RepairInit /\ [][RepairNext]_vars

(***************************************************************************)
(* calculate_correlation_matrix.  The price table is historical_prices,    *)
(* with one or two ticker columns; a log return is a whole number of ln 2. *)
(* A correlation is computed from the exact sums over the rows and rounded *)
(* to a float where pandas divides and takes the square root.              *)
(***************************************************************************)
SupportedMethods == {"pearson", "spearman", "kendall"}

Methods == SupportedMethods \cup {"cosine"}

\* historical_prices.columns, in order.
ColumnsOf(prices) == SelectSeq(Tickers, LAMBDA t : t \in DOMAIN prices)

\* Row i of the log returns has no NaN: every column has a price on day i
\* and on the day before.
ValidRow(prices, i) ==
    \A t \in DOMAIN prices : prices[t][i] # 0 /\ prices[t][i - 1] # 0

\* The rows that .dropna() keeps, from row i on.
RECURSIVE KeptRowsFrom(_, _)
KeptRowsFrom(prices, i) ==
    IF i > Len(prices[Tickers[1]]) THEN <<>>
    ELSE (IF ValidRow(prices, i) THEN <<i>> ELSE <<>>) \o KeptRowsFrom(prices, i + 1)

\* Column t of np.log(historical_prices / historical_prices.shift(1)).dropna()
LogReturnColumn(prices, t) ==
    LET rows == KeptRowsFrom(prices, 2)
    IN [k \in 1..Len(rows) |->
            Log2(prices[t][rows[k]]) - Log2(prices[t][rows[k] - 1])]

RECURSIVE SumProducts(_, _)
SumProducts(xs, ys) ==
    IF xs = <<>> THEN 0
    ELSE Head(xs) * Head(ys) + SumProducts(Tail(xs), Tail(ys))

RECURSIVE SumSeq(_)
SumSeq(xs) == IF xs = <<>> THEN 0 ELSE Head(xs) + SumSeq(Tail(xs))

\* n times the sum of (x - mean(x)) * (y - mean(y)).
CoMoment(xs, ys) == Len(xs) * SumProducts(xs, ys) - SumSeq(xs) * SumSeq(ys)

\* The float nearest to n / d, for d > 0.
BinOfFraction(n, d) == IF n < 0 THEN BinNeg(BinOfRatio(-n, d)) ELSE BinOfRatio(n, d)

\* The Pearson correlation of the columns xs / unit and ys / unit: NaN with
\* no row, and NaN where the divisor is zero (a column without variation,
\* a single row).
Pearson(xs, ys, unit) ==
    IF Len(xs) = 0 THEN BinNaN
    ELSE LET sxy == BinOfFraction(CoMoment(xs, ys), Len(xs) * unit)
             sxx == BinOfFraction(CoMoment(xs, xs), Len(xs) * unit)
             syy == BinOfFraction(CoMoment(ys, ys), Len(xs) * unit)
             divisor == BinSqrt(BinMul(sxx, syy))
         IN IF BinIsZero(divisor) THEN BinNaN ELSE BinDiv(sxy, divisor)

\* Twice the average rank of each entry of xs.
DoubledRanks(xs) ==
    [i \in 1..Len(xs) |->
        2 * Cardinality({j \in 1..Len(xs) : xs[j] < xs[i]})
        + Cardinality({j \in 1..Len(xs) : xs[j] = xs[i]}) + 1]

\* Spearman: the Pearson correlation of the average ranks.
Spearman(xs, ys) == Pearson(DoubledRanks(xs), DoubledRanks(ys), 4)

Pairs(xs) == {p \in (1..Len(xs)) \X (1..Len(xs)) : p[1] < p[2]}

\* Concordant minus discordant pairs.
RECURSIVE ConMinusDis(_, _, _)
ConMinusDis(xs, ys, ps) ==
    IF ps = {} THEN 0
    ELSE LET p == CHOOSE q \in ps : TRUE
         IN Sign(xs[p[1]] - xs[p[2]]) * Sign(ys[p[1]] - ys[p[2]])
            + ConMinusDis(xs, ys, ps \ {p})

Ties(xs) == Cardinality({p \in Pairs(xs) : xs[p[1]] = xs[p[2]]})

\* Kendall's tau-b of two different columns: NaN with no row and where a
\* column is all ties; limited to [-1, 1].
KendallTau(xs, ys) ==
    LET tot == Cardinality(Pairs(xs))
        tau == BinDiv(BinDiv(BinOfInt(ConMinusDis(xs, ys, Pairs(xs))),
                             BinSqrt(BinOfInt(tot - Ties(xs)))),
                      BinSqrt(BinOfInt(tot - Ties(ys))))
    IN IF Len(xs) = 0 \/ Ties(xs) = tot \/ Ties(ys) = tot THEN BinNaN
       ELSE IF BinLt(BinOne, tau) THEN BinOne
       ELSE IF BinLt(tau, BinNeg(BinOne)) THEN BinNeg(BinOne)
       ELSE tau

\* One entry of log_returns.corr(method = m): Kendall's diagonal is 1.0
\* as soon as there is a row, the other diagonals are computed like any
\* entry.
CorrEntry(m, xs, ys, diagonal) ==
    IF m = "pearson" THEN Pearson(xs, ys, 1)
    ELSE IF m = "spearman" THEN Spearman(xs, ys)
    ELSE IF Len(xs) = 0 THEN BinNaN
    ELSE IF diagonal THEN BinOne
    ELSE KendallTau(xs, ys)

\* log_returns.corr(method = m).values
Corr(m, prices) ==
    LET cols == ColumnsOf(prices)
    IN [i \in 1..Len(cols) |-> [j \in 1..Len(cols) |->
            CorrEntry(m, LogReturnColumn(prices, cols[i]),
                         LogReturnColumn(prices, cols[j]), i = j)]]

\* np.isnan(corr_matrix).any()
HasNaN(m) == \E i \in 1..Len(m) : \E j \in 1..Len(m) : m[i][j].nan

\* NaN entries made 0 and the others kept, instead of the identity.
NanToNum(m, n) ==
    [i \in 1..Len(m) |-> [j \in 1..Len(m) |->
        IF m[i][j].nan THEN BinZero ELSE m[i][j]]]

\* "Handle NaN values with identity matrix": n is the number of columns.
HandleNaN(m, n) == IF HasNaN(m) THEN Identity(n) ELSE m

\* The repair is left out for a matrix that needs none.
SkipRepairWhenValid(m) ==
    IF AllEigenvaluesAtLeast(m, EigenvalueFloor) THEN "returned" ELSE "repair"

\* The statement after the NaN check is the repair, whatever the matrix.
AfterNaNCheck(m) == "repair"

PriceTables ==
    [{Tickers[1]} -> [1..MaxPriceRows -> {1, 2}]]
    \cup {t \in [{Tickers[1], Tickers[2]} -> [1..MaxPriceRows -> {0, 1, 2}]] :
            \A i \in 1..MaxPriceRows : t[Tickers[1]][i] # 0}

CorrInit ==
    /\ historical_prices \in PriceTables
    /\ method \in Methods
    /\ computed = <<>>
    /\ corr_matrix = <<>>
    /\ steps = <<>>
    /\ cpc = "call"
    /\ current_prices = <<>>
    /\ min_history_days = 0
    /\ parameters = <<>>
    /\ column = 0
    /\ epc = "off"
    /\ defaulted = {}
    /\ excepted = {}
    /\ EngineOff
    /\ BatchOff
    /\ RepairOff
    /\ BackOff

\* The log returns and, for a supported method, their correlation.
ComputeCorr ==
    /\ cpc = "call"
    /\ method \in SupportedMethods
    /\ computed' = Corr(method, historical_prices)
    /\ corr_matrix' = computed'
    /\ steps' = <<"corr">>
    /\ cpc' = "check"
    /\ UNCHANGED method
    /\ UNCHANGED <<mcVars, paramVars, backVars, batchVars, repairVars>>

\* raise ValueError(f"Unsupported correlation method: {method}")
RaiseUnsupported ==
    /\ cpc = "call"
    /\ method \notin SupportedMethods
    /\ cpc' = "raised"
    /\ UNCHANGED <<method, computed, corr_matrix, steps>>
    /\ UNCHANGED <<mcVars, paramVars, backVars, batchVars, repairVars>>

\* if np.isnan(corr_matrix).any(): corr_matrix = np.eye(...)
CheckNaN ==
    /\ cpc = "check"
    /\ corr_matrix' = HandleNaN(corr_matrix, Len(ColumnsOf(historical_prices)))
    /\ steps' = IF HasNaN(corr_matrix) THEN Append(steps, "identity") ELSE steps
    /\ cpc' = AfterNaNCheck(corr_matrix')
    /\ UNCHANGED <<method, computed>>
    /\ UNCHANGED <<mcVars, paramVars, backVars, batchVars, repairVars>>

\* corr_matrix = self._make_positive_semidefinite(corr_matrix); return
RepairCorr ==
    /\ cpc = "repair"
    /\ matrix' = corr_matrix
    /\ rpc' = "returned"
    /\ repaired' = MakePositiveSemidefinite(corr_matrix)
    /\ corr_matrix' = repaired'
    /\ steps' = Append(steps, "repair")
    /\ cpc' = "returned"
    /\ UNCHANGED <<method, computed>>
    /\ UNCHANGED <<mcVars, paramVars, backVars, batchVars>>

CorrNext == ComputeCorr \/ RaiseUnsupported \/ CheckNaN \/ RepairCorr

SpecCorr == CorrInit /\ [][CorrNext]_vars

(***************************************************************************)
(* calculate_portfolio_metrics (backend/main.py).  Weights are exact       *)
(* rationals or NaN.  A quantity under a square root is carried as its     *)
(* square: volatility_sq and max_drawdown_sq are the squares of the        *)
(* reported percentages and sharpe_ratio is a Ratio, all three before      *)
(* round(); the two rational fields are rounded as the code rounds them.   *)
(***************************************************************************)
MaxWeightHalves == 3

\* The floats a field of PortfolioAllocation is drawn from: -1/2, 0, 1/2, ..
\* and NaN, which the model class accepts.
WeightGrid == {Fin(h, 2) : h \in -1..MaxWeightHalves} \cup {NaN}

AssetClasses == <<"stocks", "bonds", "alternatives", "cash">>

\* ASSET_RETURNS, in percent.
AssetReturns == <<10, 4, 8, 2>>

\* ASSET_VOLATILITY, in percent.
AssetVolatility == <<16, 4, 12, 1>>

\* CORRELATION_MATRIX, in tenths.
CorrelationTenths ==
    << <<10, 2, 6, 1>>,
       <<2, 10, 3, 0>>,
       <<6, 3, 10, 1>>,
       <<1, 0, 1, 10>> >>

\* The built-in min(a, b) and max(a, b): a unless b compares below / above.
PyMin(a, b) == IF FLt(b, a) THEN b ELSE a

PyMax(a, b) == IF FGt(b, a) THEN b ELSE a

\* round(x, digits), scale being 10^digits: half-way cases go to the even
\* neighbour, NaN stays NaN.
RoundHalfEven(x, scale) ==
    IF ~IsFinite(x) THEN x
    ELSE LET y == FMul(x, FI(scale))
             q == y.n \div y.d
             r == y.n % y.d
         IN IF 2 * r < y.d THEN Fin(q, scale)
            ELSE IF 2 * r > y.d THEN Fin(q + 1, scale)
            ELSE IF q % 2 = 0 THEN Fin(q, scale)
            ELSE Fin(q + 1, scale)

\* np.dot of two vectors.
FDot(u, v) == FSum([i \in 1..Len(u) |-> FMul(u[i], v[i])])

\* weights = np.array([allocation.stocks, .., allocation.cash])
AllocationWeights(a) == [i \in 1..Len(AssetClasses) |-> a[AssetClasses[i]]]

\* A validation that rejects negative weights only.
OnlyNegativeRejected(weights) ==
    \E i \in 1..Len(weights) : FLt(weights[i], FI(0))

\* np.any(weights < 0) or np.any(weights > 1): the two ValueErrors.
InvalidWeights(weights) ==
    \/ \E i \in 1..Len(weights) : FLt(weights[i], FI(0))
    \/ \E i \in 1..Len(weights) : FGt(weights[i], FI(1))

\* if abs(np.sum(weights) - 1.0) > 0.01: weights = weights / np.sum(weights)
Normalised(weights) ==
    IF FGt(FAbs(FSub(FSum(weights), FI(1))), Fin(1, 100))
    THEN [i \in 1..Len(weights) |-> FDiv(weights[i], FSum(weights))]
    ELSE weights

\* portfolio_return = np.dot(weights, returns), 0.05 if that is not finite.
PortfolioReturn(weights) ==
    IF IsFinite(FDot(weights, [i \in 1..Len(weights) |-> Fin(AssetReturns[i], 100)]))
    THEN FDot(weights, [i \in 1..Len(weights) |-> Fin(AssetReturns[i], 100)])
    ELSE Fin(5, 100)

\* cov_matrix = np.diag(volatilities) @ CORRELATION_MATRIX @ np.diag(volatilities)
CovMatrix ==
    [i \in 1..Len(AssetClasses) |-> [j \in 1..Len(AssetClasses) |->
        Fin(AssetVolatility[i] * CorrelationTenths[i][j] * AssetVolatility[j],
            100000)]]

\* portfolio_variance = np.dot(weights, np.dot(cov_matrix, weights)), made
\* positive if negative.
PortfolioVariance(weights) ==
    FAbs(FDot(weights, [i \in 1..Len(weights) |-> FDot(CovMatrix[i], weights)]))

\* portfolio_volatility < 1e-8, i.e. variance < 1e-16: a rational n/d with
\* d below 10^16 is that small only if n <= 0.
VolatilityBelowFloor(variance) == IsFinite(variance) /\ variance.n <= 0

\* sharpe_ratio = (portfolio_return - 0.02) / portfolio_volatility, 0.0 if
\* that is not finite; the floored volatility is 1e-8.
SharpeOf(portfolio_return, variance) ==
    IF VolatilityBelowFloor(variance)
    THEN Ratio(FMul(FSub(portfolio_return, Fin(2, 100)), FI(100000000)), FI(1))
    ELSE IF RatioIsFinite(Ratio(FSub(portfolio_return, Fin(2, 100)), variance))
    THEN Ratio(FSub(portfolio_return, Fin(2, 100)), variance)
    ELSE ZeroRatio

\* diversification_score = max(0, min(100, (1 - np.sum(weights ** 2)) * 100)),
\* rounded to one digit.
DiversificationScore(weights) ==
    RoundHalfEven(
        PyMax(FI(0), PyMin(FI(100),
            FMul(FSub(FI(1), FDot(weights, weights)), FI(100)))),
        10)

\* The square of max(0, portfolio_volatility * 100); the floored volatility
\* 1e-8 is reported as round(1e-6, 2) = 0.0.
VolatilitySq(variance) ==
    IF VolatilityBelowFloor(variance) THEN FI(0)
    ELSE IF IsNaN(variance) THEN FI(0)
    ELSE FMul(variance, FI(10000))

\* The square of min(portfolio_volatility * 2.5, 0.5) * 100; with the
\* floored volatility it is reported as round(2.5e-6, 2) = 0.0.
MaxDrawdownSq(variance) ==
    IF VolatilityBelowFloor(variance) THEN FI(0)
    ELSE FMul(PyMin(FMul(variance, Fin(25, 4)), Fin(1, 4)), FI(10000))

\* The RiskMetrics the try block returns for validated weights.
ComputedMetrics(weights) ==
    [volatility_sq |-> VolatilitySq(PortfolioVariance(weights)),
     sharpe_ratio |-> SharpeOf(PortfolioReturn(weights), PortfolioVariance(weights)),
     max_drawdown_sq |-> MaxDrawdownSq(PortfolioVariance(weights)),
     diversification_score |-> DiversificationScore(weights),
     expected_return |-> RoundHalfEven(FMul(PortfolioReturn(weights), FI(100)), 100)]

\* RiskMetrics(volatility=10.0, sharpe_ratio=0.5, max_drawdown=15.0,
\*             diversification_score=50.0, expected_return=7.0)
DefaultMetrics ==
    [volatility_sq |-> FI(100),
     sharpe_ratio |-> Ratio(Fin(1, 2), FI(1)),
     max_drawdown_sq |-> FI(225),
     diversification_score |-> FI(50),
     expected_return |-> FI(7)]

\* What the try block does: raise, or return the computed metrics.
MetricsBody(a) ==
    IF InvalidWeights(AllocationWeights(a))
    THEN [raised |-> TRUE, error |-> "ValueError"]
    ELSE [raised |-> FALSE,
          metrics |-> ComputedMetrics(Normalised(AllocationWeights(a)))]

MetricsInit ==
    /\ allocation \in [stocks : WeightGrid, bonds : WeightGrid,
                       alternatives : WeightGrid, cash : WeightGrid]
    /\ risk_metrics = <<>>
    /\ mpc = "call"
    /\ EngineOff
    /\ EstimatorOff
    /\ BatchOff
    /\ CorrOff
    /\ RepairOff
    /\ PathOff
    /\ OptimizeOff

\* One call: 'except Exception' turns whatever the body raises into the
\* default metrics.
CalculatePortfolioMetrics ==
    /\ mpc = "call"
    /\ risk_metrics' = IF MetricsBody(allocation).raised THEN DefaultMetrics
                       ELSE MetricsBody(allocation).metrics
    /\ mpc' = "returned"
    /\ UNCHANGED allocation
    /\ UNCHANGED <<mcVars, paramVars, batchVars, corrVars, repairVars,
                   pathVars, optVars>>

MetricsNext == CalculatePortfolioMetrics

SpecMetrics == MetricsInit /\ [][MetricsNext]_vars

(***************************************************************************)
(* optimize_portfolio (backend/main.py): its control flow over the         *)
(* outcomes of the optimizers it calls.  An AI optimizer returns an        *)
(* allocation (one it found, or its own rule-based fallback) or raises;    *)
(* scipy's minimize raises or returns a result.  Result vectors are in     *)
(* thousandths.                                                            *)
(***************************************************************************)
\* risk_tolerance is any string; the last one is none of the three names.
RiskTolerances == {"low", "medium", "high", "aggressive"}

\* PortfolioAllocation(stocks=.., bonds=.., alternatives=.., cash=..), in
\* thousandths.
Allocation(st, bo, al, ca) ==
    [stocks |-> Fin(st, 1000), bonds |-> Fin(bo, 1000),
     alternatives |-> Fin(al, 1000), cash |-> Fin(ca, 1000)]

\* The rule-based allocations at the end of optimize_portfolio and of
\* ai_monte_carlo_optimization.
FallbackAllocation(rt) ==
    IF rt = "low" THEN Allocation(250, 600, 100, 50)
    ELSE IF rt = "medium" THEN Allocation(550, 350, 100, 0)
    ELSE Allocation(750, 150, 100, 0)

\* What a call of an AI optimizer can end in.
AIOutcomes == {"found", "fallback", "raises"}

\* ai_result, for an outcome that returns.
AIResult(outcome, rt) ==
    IF outcome = "found" THEN Allocation(600, 300, 100, 0)
    ELSE FallbackAllocation(rt)

\* The methods in the opposite order.
MethodsReversed == <<"trust-constr", "SLSQP">>

\* optimization_methods = ['SLSQP', 'trust-constr']
OptimizationMethods == <<"SLSQP", "trust-constr">>

\* result.x of a minimize call: a valid vector, one that sums to 0.999, one
\* that sums to 1.1, one with a negative entry, one above 1.001 and one of
\* the wrong length.
ResultVectors ==
    { <<600, 300, 100, 0>>,
      <<333, 333, 333, 0>>,
      <<600, 300, 200, 0>>,
      <<-100, 600, 400, 100>>,
      <<1100, 0, 0, -100>>,
      <<500, 500>> }

\* What a call of minimize can end in.
MinimizeOutcomes ==
    {[raised |-> TRUE]}
        \cup {[raised |-> FALSE, success |-> b, x |-> v] :
                 b \in BOOLEAN, v \in ResultVectors}

RECURSIVE SumInts(_)
SumInts(v) == IF v = <<>> THEN 0 ELSE Head(v) + SumInts(Tail(v))

\* result.success and len(result.x) == 4 and np.all(result.x >= -1e-6) and
\* np.all(result.x <= 1.001) and abs(np.sum(result.x) - 1.0) < 0.01
ResultIsValid(result) ==
    /\ result.success
    /\ Len(result.x) = 4
    /\ \A i \in 1..Len(result.x) : result.x[i] >= 0
    /\ \A i \in 1..Len(result.x) : result.x[i] <= 1001
    /\ Abs(SumInts(result.x) - 1000) < 10

\* weights = np.maximum(result.x, 0); weights = weights / np.sum(weights)
FinalWeights(x) ==
    [i \in 1..Len(x) |->
        FDiv(FI(Max2(x[i], 0)),
             FI(SumInts([j \in 1..Len(x) |-> Max2(x[j], 0)])))]

\* np.all(np.isfinite(weights)) and np.all(weights >= 0)
FinalValidation(weights) ==
    /\ \A i \in 1..Len(weights) : IsFinite(weights[i])
    /\ \A i \in 1..Len(weights) : FGe(weights[i], FI(0))

\* PortfolioAllocation(stocks=round(float(weights[0]), 3), ..)
RoundedAllocation(weights) ==
    [stocks |-> RoundHalfEven(weights[1], 1000),
     bonds |-> RoundHalfEven(weights[2], 1000),
     alternatives |-> RoundHalfEven(weights[3], 1000),
     cash |-> RoundHalfEven(weights[4], 1000)]

\* Whether one pass of the loop over the methods returns.
AttemptReturns(outcome) ==
    /\ ~outcome.raised
    /\ ResultIsValid(outcome)
    /\ FinalValidation(FinalWeights(outcome.x))

OptimizeInit ==
    /\ risk_tolerance \in RiskTolerances
    /\ use_ai_optimization \in BOOLEAN
    /\ preferences \in BOOLEAN
    /\ ai_called = "none"
    /\ attempts = <<>>
    /\ optimized = <<>>
    /\ returned_by = "none"
    /\ opc = "call"
    /\ EngineOff
    /\ EstimatorOff
    /\ BatchOff
    /\ CorrOff
    /\ RepairOff
    /\ PathOff
    /\ MetricsOff

\* use_ai_optimization is off: straight to the traditional methods.
SkipAI ==
    /\ opc = "call"
    /\ ~use_ai_optimization
    /\ opc' = "traditional"
    /\ UNCHANGED <<risk_tolerance, use_ai_optimization, preferences, ai_called,
                   attempts, optimized, returned_by>>
    /\ UNCHANGED <<mcVars, paramVars, batchVars, corrVars, repairVars,
                   pathVars, metricVars>>

\* The AI branch: the genetic algorithm with preferences, Monte Carlo
\* without; a result is returned, an exception is printed and dropped.
TryAI ==
    /\ opc = "call"
    /\ use_ai_optimization
    /\ ai_called' = IF preferences THEN "ai_genetic_algorithm_optimization"
                    ELSE "ai_monte_carlo_optimization"
    /\ \E outcome \in AIOutcomes :
           IF outcome = "raises"
           THEN /\ opc' = "traditional"
                /\ UNCHANGED <<optimized, returned_by>>
           ELSE /\ optimized' = AIResult(outcome, risk_tolerance)
                /\ returned_by' = "ai"
                /\ opc' = "returned"
    /\ UNCHANGED <<risk_tolerance, use_ai_optimization, preferences, attempts>>
    /\ UNCHANGED <<mcVars, paramVars, batchVars, corrVars, repairVars,
                   pathVars, metricVars>>

\* One pass of 'for method in optimization_methods': minimize, validate,
\* return or go on; an exception of minimize is printed and dropped.
TryMethod ==
    /\ opc = "traditional"
    /\ Len(attempts) < Len(OptimizationMethods)
    /\ attempts' = Append(attempts, OptimizationMethods[Len(attempts) + 1])
    /\ \E outcome \in MinimizeOutcomes :
           IF AttemptReturns(outcome)
           THEN /\ optimized' = RoundedAllocation(FinalWeights(outcome.x))
                /\ returned_by' = OptimizationMethods[Len(attempts) + 1]
                /\ opc' = "returned"
           ELSE UNCHANGED <<optimized, returned_by, opc>>
    /\ UNCHANGED <<risk_tolerance, use_ai_optimization, preferences, ai_called>>
    /\ UNCHANGED <<mcVars, paramVars, batchVars, corrVars, repairVars,
                   pathVars, metricVars>>

\* The loop is over without a return: the allocation for the risk tolerance.
UseFallback ==
    /\ opc = "traditional"
    /\ Len(attempts) = Len(OptimizationMethods)
    /\ optimized' = FallbackAllocation(risk_tolerance)
    /\ returned_by' = "fallback"
    /\ opc' = "returned"
    /\ UNCHANGED <<risk_tolerance, use_ai_optimization, preferences, ai_called,
                   attempts>>
    /\ UNCHANGED <<mcVars, paramVars, batchVars, corrVars, repairVars,
                   pathVars, metricVars>>

OptimizeNext == SkipAI \/ TryAI \/ TryMethod \/ UseFallback

SpecOptimize == OptimizeInit /\ [][OptimizeNext]_vars

(***************************************************************************)
(* Claims about run_monte_carlo_simulation (specification Spec).           *)
(***************************************************************************)
Returned == pc = "returned"

Antithetic == config.use_antithetic_variates

\* C1: with antithetic variates enabled, the returned path matrix has
\* exactly num_simulations rows, for odd counts too, in both modes.
C1_RowsEqualRequested ==
    (Returned /\ Antithetic) => Len(results) = config.num_simulations

\* C2: with antithetic variates enabled, the antithetic row paired with base
\* path k holds 2 * initial_value - value[k][d] on every day d.
C2_ReflectsAroundInitialValue ==
    (Returned /\ Antithetic) =>
        \A k \in 1..NBaseSims : \A c \in 1..(Horizon + 1) :
            results[NBaseSims + k][c] = 2 * InitialPortfolioValue - results[k][c]

\* The portfolio holds an instrument, so that its paths depend on the shocks.
HoldsInstrument ==
    \E i \in 1..NAssets : WeightOf(portfolio_weights, Tickers[i]) > 0

\* C3: in parallel mode with two or more batches, no two distinct batches
\* produce identical path matrices (stated for a portfolio that holds an
\* instrument: the paths of an empty portfolio are all zero).
C3_BatchesDistinct ==
    (Returned /\ config.parallelize /\ Len(tasks) >= 2 /\ HoldsInstrument) =>
        \A i, j \in 1..Len(tasks) : i # j => tasks[i].paths # tasks[j].paths

\* C4: a second call with the same arguments returns the path matrix the
\* first call returned, under every interleaving of the worker threads.
C4_Reproducible ==
    (run = 2 /\ Returned) => results = firstResults

\* C5: when a Cholesky factorization fails, in the sequential run or in a
\* parallel batch, the call ends by raising that failure and returns neither
\* paths nor statistics.
C5_CholeskyFailureSurfaces ==
    (cholFailed /\ pc \in {"returned", "raised"}) =>
        /\ pc = "raised"
        /\ error = "LinAlgError"
        /\ results = <<>>
        /\ statistics = NoStats

C5_Witness ==
    /\ cholFailed
    /\ pc = "raised"
    /\ config.parallelize
    /\ Len(tasks) >= 2

\* C6: with simulation count, horizon and worker count all >= 1, the call
\* raises only when a Cholesky factorization has failed.
C6_RaisesOnlyOnCholesky ==
    pc = "raised" => cholFailed

\* C7: every scalar of the returned statistics bundle is finite.
C7_StatisticsFinite ==
    Returned =>
        /\ IsFinite(statistics.mean_final_value)
        /\ IsFinite(statistics.var_final_value)
        /\ IsFinite(statistics.mean_return)
        /\ IsFinite(statistics.var_return)
        /\ IsFinite(statistics.min_return)
        /\ IsFinite(statistics.max_return)
        /\ RatioIsFinite(statistics.sharpe_ratio)
        /\ RatioIsFinite(statistics.sortino_ratio)
        /\ IsFinite(statistics.calmar_ratio)
        /\ IsFinite(statistics.maximum_drawdown)
        /\ IsFinite(statistics.downside_deviation_sq)

\* A denominator that is zero or undefined.
ZeroOrUndefined(a) == a = FI(0) \/ IsNaN(a)

NoNegativeReturn ==
    \A s \in 1..Len(results) :
        ~FLt(Returns(results, InitialPortfolioValue)[s], FI(0))

\* C8: a ratio whose denominator is zero or undefined is reported as exactly
\* 0: Sharpe when the standard deviation of the returns is 0, Sortino when
\* there is no negative return or their deviation is 0, Calmar when the
\* maximum drawdown is 0.
C8_DegenerateRatiosAreZero ==
    Returned =>
        /\ ZeroOrUndefined(statistics.var_return)
               => statistics.sharpe_ratio = ZeroRatio
        /\ (NoNegativeReturn \/ ZeroOrUndefined(statistics.downside_deviation_sq))
               => statistics.sortino_ratio = ZeroRatio
        /\ ZeroOrUndefined(statistics.maximum_drawdown)
               => statistics.calmar_ratio = FI(0)

C8_Witness ==
    /\ Returned
    /\ statistics.var_return = FI(0)
    /\ statistics.sharpe_ratio = ZeroRatio
    /\ NoNegativeReturn
    /\ statistics.sortino_ratio = ZeroRatio
    /\ statistics.maximum_drawdown = FI(0)
    /\ statistics.calmar_ratio = FI(0)

\* final_values of the returned paths.
FinalValues == ColumnValues(results, Horizon + 1, ExpScale(Horizon))

\* C14: the final-value percentiles are non-decreasing in the level, and so
\* are the time-series percentile curves on every day.
C14_PercentilesMonotone ==
    Returned =>
        /\ \A i \in 1..(Len(ConfidenceLevels) - 1) :
               FLe(statistics.percentiles[i], statistics.percentiles[i + 1])
        /\ \A c \in 1..(Horizon + 1) : \A i \in 1..(Len(TimeSeriesLevels) - 1) :
               FLe(statistics.time_series_percentiles[i][c],
                   statistics.time_series_percentiles[i + 1][c])

\* Paths that differ: the percentiles rise strictly from level to level, at
\* the end and on the last day's curve.
C14_Witness ==
    /\ Returned
    /\ Len(results) >= 3
    /\ \A i \in 1..(Len(ConfidenceLevels) - 1) :
           FLt(statistics.percentiles[i], statistics.percentiles[i + 1])
    /\ \A i \in 1..(Len(TimeSeriesLevels) - 1) :
           FLt(statistics.time_series_percentiles[i][Horizon + 1],
               statistics.time_series_percentiles[i + 1][Horizon + 1])

\* C15: each expected shortfall is the mean of the final values at or below
\* the VaR of its level, that set is never empty, and the expected shortfall
\* is <= the VaR.
C15_ShortfallAtMostVaR ==
    Returned =>
        /\ SelectAtMost(FinalValues, statistics.var_95) # <<>>
        /\ SelectAtMost(FinalValues, statistics.var_99) # <<>>
        /\ statistics.expected_shortfall_95
               = FMean(SelectAtMost(FinalValues, statistics.var_95))
        /\ statistics.expected_shortfall_99
               = FMean(SelectAtMost(FinalValues, statistics.var_99))
        /\ FLe(statistics.expected_shortfall_95, statistics.var_95)
        /\ FLe(statistics.expected_shortfall_99, statistics.var_99)

\* The VaR lies strictly between two final values, and the shortfall
\* strictly below the VaR.
C15_Witness ==
    /\ Returned
    /\ Len(results) >= 3
    /\ FLt(statistics.expected_shortfall_95, statistics.var_95)
    /\ FLt(statistics.expected_shortfall_99, statistics.var_99)
    /\ FLt(statistics.var_99, statistics.var_95)

\* C16: the reported maximum drawdown is <= 0 for every returned bundle.
C16_MaxDrawdownNonPositive ==
    Returned => FLe(statistics.maximum_drawdown, FI(0))

\* The paths a batch of n simulations gets when its draw starts at position
\* pos of the random stream.
PathsDrawnAt(pos, n) ==
    PortfolioValues(asset_parameters, portfolio_weights,
                    Einsum(StandardNormal(pos, n, Horizon, NAssets),
                           Cholesky(correlation_matrix).L),
                    Horizon, n)

\* The number of rows of the batches submitted before batch i.
RECURSIVE RowsBefore(_)
RowsBefore(i) == IF i <= 1 THEN 0 ELSE RowsBefore(i - 1) + tasks[i - 1].size

\* The number of base rows of the returned matrix.
BaseRows == IF Antithetic THEN Len(results) \div 2 ELSE Len(results)

\* C18: in parallel mode the rows of batch i sit in the combined matrix
\* right after the rows of batches 1..i-1, each batch once, whatever order
\* the threads finished in, and statistics exist only once every batch is
\* done and combined.
C18_SubmissionOrder ==
    (config.parallelize /\ statistics # NoStats) =>
        /\ \A i \in 1..Len(tasks) : tasks[i].st = "done"
        /\ BaseRows = RowsBefore(Len(tasks) + 1)
        /\ \A i \in 1..Len(tasks) : \A r \in 1..tasks[i].size :
               results[RowsBefore(i) + r] = tasks[i].paths[r]

\* Batch 2 drew, and so finished, before batch 1: batch 1 holds the numbers
\* that follow batch 2's draw in the stream.
C18_Witness ==
    /\ Returned
    /\ config.parallelize
    /\ Len(tasks) = 2
    /\ HoldsInstrument
    /\ tasks[1].paths = PathsDrawnAt(tasks[2].size * Horizon * NAssets, tasks[1].size)
    /\ tasks[1].paths # PathsDrawnAt(0, tasks[1].size)
    /\ tasks[1].paths # tasks[2].paths
    /\ results[1] = tasks[1].paths[1]

NonNegativeWeights ==
    \A t \in DOMAIN portfolio_weights : portfolio_weights[t] >= 0

\* sum over the instruments 1..i of weight * price on the given day, in
\* units of 1/ExpScale(T); the price of day 0 is the current price.
RECURSIVE WeightedPriceSum(_, _, _, _)
WeightedPriceSum(cz, T, day, i) ==
    IF i = 0 THEN 0
    ELSE WeightedPriceSum(cz, T, day, i - 1)
         + WeightOf(portfolio_weights, Tickers[i])
           * AssetPrice(asset_parameters, cz, T, day, i)

\* C19: for non-negative weights, every base path a batch computes holds on
\* every day 0..horizon the sum over all instruments of weight * price.
C19_ValueIsWeightedSum ==
    [][\A i \in 1..Len(tasks) :
          (NonNegativeWeights /\ tasks[i].st = "seeded" /\ tasks'[i].st = "done") =>
              LET cz == Einsum(StandardNormal(rngPos, tasks[i].size, Horizon, NAssets),
                               Cholesky(correlation_matrix).L)
              IN /\ Len(tasks'[i].paths) = tasks[i].size
                 /\ \A s \in 1..tasks[i].size : \A c \in 1..(Horizon + 1) :
                        tasks'[i].paths[s][c]
                            = WeightedPriceSum(cz[s], Horizon, c - 1, NAssets)]_vars

C19_Witness ==
    /\ Returned
    /\ portfolio_weights = ("A" :> 1) @@ ("B" :> 1)
    /\ Horizon = 2
    /\ Len(results) >= 2
    /\ results[1] # results[2]

\* C21: a call leaves the asset parameters, the portfolio weights, the
\* correlation matrix and the config unchanged, and while the batches of a
\* parallel run are executing no state that the batches share is written:
\* a step of one batch changes nothing that another batch reads.
C21_SharedStateReadOnly ==
    [][/\ UNCHANGED <<config, asset_parameters, portfolio_weights,
                      correlation_matrix>>
       /\ (config.parallelize /\ Len(tasks) >= 2 /\ pc = "running" /\ pc' = "running")
              => rngPos' = rngPos]_vars

\* tickers = list(asset_parameters.keys())
Instruments == DOMAIN asset_parameters

\* The weights without those of instruments that have no parameters.
KnownWeights ==
    [t \in DOMAIN portfolio_weights \cap Instruments |-> portfolio_weights[t]]

\* The weights of the instruments that have parameters, 0 for an instrument
\* without a weight.
CompletedWeights ==
    [t \in Instruments |->
        IF t \in DOMAIN portfolio_weights THEN portfolio_weights[t] ELSE 0]

\* C30: a weight whose instrument is absent from the asset parameters has no
\* effect on the initial value or on any path value, and an instrument with
\* parameters but no weight contributes 0 on every day: the paths a batch
\* computes, day 0 included, are those of the weights without the unknown
\* instruments and those of the weights with 0 for the unweighted ones.
C30_UnknownAndUnweightedIgnored ==
    [][/\ InitialValue(asset_parameters, portfolio_weights)
              = InitialValue(asset_parameters, KnownWeights)
       /\ InitialValue(asset_parameters, portfolio_weights)
              = InitialValue(asset_parameters, CompletedWeights)
       /\ \A i \in 1..Len(tasks) :
              (tasks[i].st = "seeded" /\ tasks'[i].st = "done") =>
                  LET cz == Einsum(StandardNormal(rngPos, tasks[i].size, Horizon, NAssets),
                                   Cholesky(correlation_matrix).L)
                  IN /\ tasks'[i].paths
                         = PortfolioValues(asset_parameters, KnownWeights, cz,
                                           Horizon, tasks[i].size)
                     /\ tasks'[i].paths
                         = PortfolioValues(asset_parameters, CompletedWeights, cz,
                                           Horizon, tasks[i].size)]_vars

\* A returned run whose weights name an instrument without parameters and
\* leave an instrument with parameters unweighted.
C30_Witness ==
    /\ Returned
    /\ DOMAIN portfolio_weights \ Instruments # {}
    /\ Instruments \ DOMAIN portfolio_weights # {}
    /\ Len(results) >= 2
    /\ results[1][Horizon + 1] # results[1][1]

\* C27: every row of the returned path matrix, antithetic rows included, has
\* horizon + 1 entries and starts at the initial value that is reported, and
\* every time-series percentile curve has horizon + 1 entries and starts at
\* the initial value.
C27_RowsStartAtInitialValue ==
    Returned =>
        /\ \A r \in 1..Len(results) :
               /\ Len(results[r]) = Horizon + 1
               /\ results[r][1] = InitialPortfolioValue
        /\ \A i \in 1..Len(TimeSeriesLevels) :
               /\ Len(statistics.time_series_percentiles[i]) = Horizon + 1
               /\ statistics.time_series_percentiles[i][1]
                      = Fin(InitialPortfolioValue, ExpScale(Horizon))

\* A returned matrix with an antithetic half whose later days differ from the
\* base half.
C27_Witness ==
    /\ Returned
    /\ Antithetic
    /\ Horizon = 2
    /\ Len(results) = 4
    /\ results[4] # results[2]
    /\ InitialPortfolioValue > 0

(***************************************************************************)
(* Claims about one call on a volatile instrument (specification           *)
(* SpecVolatile).                                                          *)
(***************************************************************************)
PositivePrices ==
    \A t \in DOMAIN asset_parameters : asset_parameters[t].current_price > 0

\* C28: with positive current prices and non-negative weights every value of
\* the returned path matrix is >= 0, on base rows and on antithetic rows, in
\* both execution modes.
C28_ValuesNonNegative ==
    (Returned /\ PositivePrices /\ NonNegativeWeights) =>
        \A r \in 1..Len(results) : \A c \in 1..Len(results[r]) : results[r][c] >= 0

IsProbability(p) == FLe(FI(0), p) /\ FLe(p, FI(1))

\* C29: the five probability metrics each lie in [0, 1], and
\* P(return <= -10%) <= P(return <= -5%),
\* P(return >= +20%) <= P(return >= +10%) <= P(return > 0), and
\* P(return > 0) + P(return <= -5%) <= 1.
C29_ProbabilitiesConsistent ==
    Returned =>
        /\ IsProbability(statistics.prob_positive)
        /\ IsProbability(statistics.prob_loss_5)
        /\ IsProbability(statistics.prob_loss_10)
        /\ IsProbability(statistics.prob_gain_10)
        /\ IsProbability(statistics.prob_gain_20)
        /\ FLe(statistics.prob_loss_10, statistics.prob_loss_5)
        /\ FLe(statistics.prob_gain_20, statistics.prob_gain_10)
        /\ FLe(statistics.prob_gain_10, statistics.prob_positive)
        /\ FLe(FAdd(statistics.prob_positive, statistics.prob_loss_5), FI(1))

\* A returned bundle in which some paths gain, some lose more than 10% and
\* some do neither.
C29_Witness ==
    /\ Returned
    /\ FLt(FI(0), statistics.prob_gain_20)
    /\ FLt(FI(0), statistics.prob_loss_10)
    /\ FLt(FAdd(statistics.prob_positive, statistics.prob_loss_5), FI(1))

(***************************************************************************)
(* Claims about _simulate_portfolio_paths (specification SpecPaths).       *)
(***************************************************************************)
\* C25: the correlated shock of asset l at (simulation s, day d) is the sum
\* over k of L[l][k] * Z[s][d][k]: it depends on the raw shocks of the same
\* simulation and the same day only and, L being lower-triangular, only on
\* the assets k <= l.
C25_CorrelatedAlongAssetAxis ==
    spc \in {"prices", "done"} =>
        /\ \A l \in 1..NAssets : \A k \in (l + 1)..NAssets : sim_L[l][k] = 0
        /\ \A s \in 1..config.num_simulations : \A d \in 1..Horizon :
               \A l \in 1..NAssets :
                   sim_correlated_Z[s][d][l] = DotPrefix(sim_L[l], sim_Z[s][d], l)

\* Correlated shocks under a factor with an off-diagonal entry, the second
\* instrument's shock differing from its raw shock.
C25_Witness ==
    /\ spc = "done"
    /\ sim_L[2][1] # 0
    /\ config.num_simulations >= 2
    /\ Horizon = 2
    /\ \E s \in 1..config.num_simulations : \E d \in 1..Horizon :
           /\ sim_Z[s][d][2] # 0
           /\ sim_correlated_Z[s][d][2] # sim_Z[s][d][2]
           /\ sim_correlated_Z[s][d][1] = sim_Z[s][d][1]

\* C26: on every path and day t >= 1 the price of asset i is its price of
\* day t - 1 times exp(drift_i + daily_volatility_i * correlated shock of
\* day t for asset i), and every price is strictly positive.
C26_PerAssetStep ==
    spc \in {"prices", "done"} =>
        \A s \in 1..config.num_simulations : \A i \in 1..NAssets :
            /\ sim_asset_prices[s][1][i]
                   = asset_parameters[Tickers[i]].current_price * ExpScale(Horizon)
            /\ \A t \in 1..(sim_day - 1) :
                   /\ sim_asset_prices[s][t + 1][i]
                          = TimesExp(sim_asset_prices[s][t][i],
                                     asset_parameters[Tickers[i]].drift
                                     + asset_parameters[Tickers[i]].daily_volatility
                                       * sim_correlated_Z[s][t][i])
                   /\ sim_asset_prices[s][t + 1][i] > 0

\* Two days of prices of two instruments whose parameters differ, both moved.
C26_Witness ==
    /\ spc = "done"
    /\ Horizon = 2
    /\ asset_parameters["A"].drift # asset_parameters["B"].drift
    /\ \E s \in 1..config.num_simulations :
           /\ sim_asset_prices[s][3][1] # sim_asset_prices[s][2][1]
           /\ sim_asset_prices[s][3][2] # sim_asset_prices[s][2][2]
           /\ sim_correlated_Z[s][1][2] # sim_correlated_Z[s][2][2]

\* The statement-by-statement call computes the matrix that the engine's
\* batches compute in one step.
PathsAgree ==
    spc = "done" =>
        sim_portfolio_values
            = PortfolioValues(asset_parameters, portfolio_weights,
                              sim_correlated_Z, Horizon, config.num_simulations)

(***************************************************************************)
(* Claims about calculate_asset_parameters (specification SpecParams).     *)
(***************************************************************************)
Columns == {Tickers[i] : i \in 1..NAssets}

\* C9: the result holds exactly one entry per ticker column, and a ticker
\* whose estimation raised gets the default parameters while every other
\* ticker's entry is what the batch without the failing ticker gives it.
C9_FailureIsolated ==
    epc = "done" =>
        /\ DOMAIN parameters = Columns
        /\ \A t \in excepted :
            /\ parameters[t] = DefaultParameters(t, CurrentPrice(t, 100))
            /\ \A u \in Columns \ {t} :
                   parameters[u] = CalculateOver(Without(Tickers, t))[u]

C9_Witness ==
    /\ epc = "done"
    /\ excepted # {}
    /\ \E u \in Columns : u \notin defaulted /\ parameters[u].lookback_days > 0

\* C10: for every ticker and every threshold, lookback_days is 0 exactly
\* when the default parameters were emitted; a ticker with at least the
\* threshold number of prices gets a non-zero observation count.
C10_ZeroLookbackIffDefault ==
    epc = "done" =>
        \A t \in Columns : (parameters[t].lookback_days = 0) <=> (t \in defaulted)

(***************************************************************************)
(* Claims about the configuration (specification SpecConfig).              *)
(***************************************************************************)
InvalidConfig == config.num_simulations < 1 \/ config.time_horizon_days < 1

\* C20: a config with simulation count < 1 or time horizon < 1 is rejected
\* before use: the path simulator is never entered and the call never
\* returns a result.
C20_InvalidConfigRejected ==
    InvalidConfig =>
        /\ \A i \in 1..Len(tasks) : tasks[i].st = "queued"
        /\ pc # "returned"

(***************************************************************************)
(* Claims about the batch split (specification SpecBatches).               *)
(***************************************************************************)
RECURSIVE SumOf(_)
SumOf(q) == IF q = <<>> THEN 0 ELSE Head(q) + SumOf(Tail(q))

\* C17: for every base simulation count and every worker count >= 1 the
\* batch sizes are all >= 1 and sum to the base simulation count.
C17_BatchesPartition ==
    bpc = "done" =>
        /\ \A i \in 1..Len(batches) : batches[i] >= 1
        /\ SumOf(batches) = split_n_base_sims

\* A split with full batches and a smaller remainder batch.
C17_Witness ==
    /\ bpc = "done"
    /\ Len(batches) >= 3
    /\ batches[Len(batches)] < batches[1]
    /\ SumOf(batches) = split_n_base_sims

\* C24: for every base simulation count and every worker count >= 1, any
\* two batch sizes differ by at most 1.
C24_BatchesNearEqual ==
    bpc = "done" =>
        \A i, j \in 1..Len(batches) : batches[i] - batches[j] <= 1

(***************************************************************************)
(* Claims about _make_positive_semidefinite (specification SpecRepair).    *)
(***************************************************************************)
\* C13: for every symmetric input matrix, the matrix returned by
\* _make_positive_semidefinite has all its eigenvalues >= the floor 1e-8.
C13_EigenvaluesAtLeastFloor ==
    rpc = "returned" => AllEigenvaluesAtLeast(repaired, EigenvalueFloor)

(***************************************************************************)
(* Claims about calculate_correlation_matrix (specification SpecCorr).     *)
(***************************************************************************)
NColumns == Len(ColumnsOf(historical_prices))

\* C11: if any entry of the computed correlation matrix is NaN, the whole
\* matrix is replaced by the N x N identity before the repair: the matrix
\* handed to the repair is the identity and no entry of the computed matrix
\* is kept.
C11_NaNReplacedByIdentity ==
    (cpc \in {"repair", "returned"} /\ HasNaN(computed)) =>
        /\ cpc = "repair" => corr_matrix = Identity(NColumns)
        /\ cpc = "returned" =>
            /\ matrix = Identity(NColumns)
            /\ corr_matrix = MakePositiveSemidefinite(Identity(NColumns))

\* A two-column matrix with a NaN beside a number has reached the repair.
C11_Witness ==
    /\ cpc = "returned"
    /\ NColumns = 2
    /\ HasNaN(computed)
    /\ ~computed[1][1].nan

\* C12: every matrix returned by calculate_correlation_matrix has passed
\* through _make_positive_semidefinite as its last step, for each supported
\* method, for the identity fallback and for a matrix that needed no repair;
\* the call ends without repair only by the error for an unsupported method.
C12_RepairIsLastStep ==
    /\ cpc = "returned" =>
        /\ method \in SupportedMethods
        /\ steps[Len(steps)] = "repair"
        /\ rpc = "returned"
        /\ corr_matrix = MakePositiveSemidefinite(matrix)
        /\ matrix = HandleNaN(computed, NColumns)
    /\ cpc = "raised" =>
        /\ method \notin SupportedMethods
        /\ steps = <<>>
        /\ rpc = "off"
    /\ cpc \in {"call", "check", "repair"} => rpc = "off"

\* A computed matrix without NaN whose eigenvalues were all above the floor
\* already has been repaired and returned.
C12_Witness ==
    /\ cpc = "returned"
    /\ NColumns = 2
    /\ steps = <<"corr", "repair">>
    /\ AllEigenvaluesAtLeast(computed, EigenvalueFloor)
    /\ ~BinIsZero(computed[1][2])

(***************************************************************************)
(* Claims about calculate_portfolio_metrics (specification SpecMetrics).   *)
(***************************************************************************)
\* A weight of the allocation is negative or above 1.
WeightOutOfRange ==
    \E f \in DOMAIN allocation :
        FLt(allocation[f], FI(0)) \/ FGt(allocation[f], FI(1))

\* C22: calculate_portfolio_metrics returns a RiskMetrics for every
\* allocation and never raises, and when a weight is negative or above 1 it
\* returns the default metrics (10.0, 0.5, 15.0, 50.0, 7.0).
C22_MetricsNeverRaise ==
    /\ mpc # "raised"
    /\ mpc = "returned" =>
           /\ DOMAIN risk_metrics = DOMAIN DefaultMetrics
           /\ WeightOutOfRange => risk_metrics = DefaultMetrics

\* The default metrics returned for a weight above 1 next to valid weights.
C22_Witness ==
    /\ mpc = "returned"
    /\ FGt(allocation.stocks, FI(1))
    /\ allocation.bonds = FI(0)
    /\ allocation.cash = Fin(1, 2)
    /\ risk_metrics = DefaultMetrics

====
